---------------------------- MODULE Spec2Model ----------------------------
(***************************************************************************)
(* Request pipeline of the Midcurve REST API layer.                        *)
(*                                                                         *)
(* Every route is an async function.  A request slot walks through the     *)
(* awaits of its route: the authentication wrapper withAuth (or the inline *)
(* session check of the API-key management routes), the parsing and schema *)
(* validation of its input, the calls into the services layer, the error   *)
(* mapping of the catch blocks and the response.  The services layer       *)
(* (key store, user store, nonce cache, wallet table, positions) is the    *)
(* environment: its calls return or throw, and its state is shared by all  *)
(* requests.                                                               *)
(*                                                                         *)
(* Spec     serves the requests of every route one at a time.              *)
(* SpecRace serves concurrent POST /api/v1/auth/link-wallet requests, all  *)
(*          awaits of the route being interleaving points.                 *)
(***************************************************************************)
EXTENDS Integers, Sequences, FiniteSets, TLC

-----------------------------------------------------------------------------
(* Bounds *)

\* request slots (requests that can be in flight in SpecRace)
NumReq == 2
\* nonces the nonce service can issue
MaxNonces == 1

-----------------------------------------------------------------------------
(* Universe *)

Reqs == 1..NumReq
Nonces == 1..MaxNonces

NoUser == "none"
\* users that exist in the user store
Users == {"u1", "u2"}
\* owner of the key mc_ghost: a user id that findUserById does not find
GhostUser == "u3"

\* wallet addresses a SIWE message can carry
Addrs == {"0xA1"}

\* positions and their owners, as the position service has them stored
Positions == {"p1", "p2", "p3"}
NoPosition == "none"
PositionOwner == [p \in Positions |-> IF p = "p2" THEN "u2" ELSE "u1"]
\* the chain of every position, and the positions newest first
PositionChain == [p \in Positions |-> IF p = "p3" THEN 12 ELSE 1]
PositionActive == [p \in Positions |-> p # "p1"]
PositionsNewestFirst == <<"p3", "p2", "p1">>

\* API key tokens the key store can hold
KeyTokens == {"mc_u1", "mc_ghost", "mc_new"}
\* the id and the prefix the key store keeps of every key
KeyId == [k \in KeyTokens |->
            CASE k = "mc_u1" -> "key_u1" [] k = "mc_ghost" -> "key_ghost" [] OTHER -> "key_new"]
KeyPrefix == [k \in KeyTokens |->
                CASE k = "mc_u1" -> "mc_u1..." [] k = "mc_ghost" -> "mc_gh..." [] OTHER -> "mc_ne..."]

\* Authorization header values; NoHeader is headers.get() returning null
NoHeader == "null"
AuthHeaders ==
  {NoHeader, "Bearer mc_u1", "Bearer mc_ghost", "Bearer mc_new",
   "Bearer mc_unknown", "Bearer eyJ"}

\* outcome of the session provider auth() for a request: no session, a
\* session with a user id, or a rejected promise
SessionOutcomes == {"none", "throws"} \cup Users

Routes ==
  {"health", "nonce_get", "link_wallet", "apikeys_get", "apikeys_post",
   "apikeys_delete", "pos_list", "pos_get", "erc20_post", "erc20_search",
   "pool_get"}
\* routes whose body is the callback of withAuth
WithAuthRoutes ==
  {"link_wallet", "pos_list", "pos_get", "erc20_post", "erc20_search", "pool_get"}
\* routes that call auth() themselves
SessionOnlyRoutes == {"apikeys_get", "apikeys_post", "apikeys_delete"}
PublicRoutes == {"health", "nonce_get"}

\* calls into the services layer made on behalf of a route (the delegate
\* step), as opposed to the calls of the authentication step (validateApiKey,
\* updateLastUsed, findUserById, getUserWallets, auth)
DelegateOps ==
  {"generateNonce", "validateNonce", "consumeNonce", "linkWallet",
   "getUserApiKeys", "createApiKey", "revokeApiKey", "findMany",
   "findByPositionHash", "refresh", "discover", "searchTokens",
   "poolDiscover", "getPoolMetrics"}

-----------------------------------------------------------------------------
(* Thrown values.  A thrown value is an Error or not, and its text         *)
(* contains some of the substrings the catch blocks look for.              *)

Vocab ==
  {"not configured", "not supported", "not found", "does not exist",
   "Failed to read", "contract", "RPC", "already registered",
   "does not belong", "Invalid Ethereum address", "does not implement ERC-20",
   "Failed to read token metadata", "CoinGecko", "enrichment", "at least one",
   "Invalid pool address", "does not implement"}

\* a text that contains the longer phrase contains the shorter one too
Implied(subs) ==
  (IF "Failed to read token metadata" \in subs THEN {"Failed to read"} ELSE {})
  \cup (IF "does not implement ERC-20" \in subs THEN {"does not implement"} ELSE {})

Thrown(isErr, subs) == [isError |-> isErr, subs |-> subs \cup Implied(subs)]
NoThrow == [isError |-> FALSE, subs |-> {"<nothing thrown>"}]

UnmatchedError == Thrown(TRUE, {})
\* a thrown value that is not an Error
NonError == Thrown(FALSE, {"not found"})

\* the values a call into the services layer throws in the model
Throws(op) ==
  CASE op = "revokeApiKey" -> {UnmatchedError, Thrown(TRUE, {"does not belong"})}
    [] op = "linkWallet" -> {UnmatchedError, Thrown(TRUE, {"already registered"})}
    [] op = "findByPositionHash" ->
         {UnmatchedError, NonError, Thrown(TRUE, {"not found"}),
          Thrown(TRUE, {"not configured"})}
    [] op = "refresh" ->
         {UnmatchedError, NonError, Thrown(FALSE, {"not configured"}),
          Thrown(TRUE, {"not found"}), Thrown(TRUE, {"not configured"}),
          Thrown(TRUE, {"not supported", "not found"}),
          Thrown(TRUE, {"not configured", "does not exist", "RPC"}),
          Thrown(TRUE, {"not found", "contract"}),
          Thrown(TRUE, {"does not exist", "RPC"}),
          Thrown(TRUE, {"Failed to read"}), Thrown(TRUE, {"contract"}),
          Thrown(TRUE, {"RPC"}), Thrown(TRUE, {"CoinGecko"})}
    [] op = "discover" -> {UnmatchedError, Thrown(TRUE, {"not configured"})}
    [] op = "searchTokens" -> {UnmatchedError, Thrown(TRUE, {"at least one"})}
    [] op = "poolDiscover" ->
         {UnmatchedError, Thrown(TRUE, {"not configured"}), Thrown(TRUE, {"Failed to read"})}
    [] OTHER -> {UnmatchedError}

\* error.message.includes(s)
Includes(e, s) == s \in e.subs

\* request bodies that are not JSON: "badjson" stands for a text such as an
\* opening brace alone, "CoinGecko" for that bare word
NotJson == {"badjson", "CoinGecko"}

\* the values request.json() throws on such a body: the SyntaxError of
\* JSON.parse, whose message names the unexpected token and its position
\* (Node.js 18) or names the token and quotes the text of the body around it
\* (Node.js 20 and later)
JsonSyntaxErrors(input) ==
  {UnmatchedError} \cup {Thrown(TRUE, IF input = "CoinGecko" THEN {"CoinGecko"} ELSE {})}

-----------------------------------------------------------------------------
(* Query strings and numbers.  The value of a query parameter is absent    *)
(* (searchParams.get returns null) or a string, kept as the sequence of    *)
(* its characters.  A number of JavaScript is an integer, a number that is *)
(* not an integer, NaN, or undefined where a number is optional.           *)

Absent == [present |-> FALSE, chars |-> <<>>]
Str(cs) == [present |-> TRUE, chars |-> cs]

Digits == {"0", "1", "2", "3", "4", "5", "6", "7", "8", "9"}
DigitValue(c) ==
  CASE c = "0" -> 0 [] c = "1" -> 1 [] c = "2" -> 2 [] c = "3" -> 3 [] c = "4" -> 4
    [] c = "5" -> 5 [] c = "6" -> 6 [] c = "7" -> 7 [] c = "8" -> 8 [] OTHER -> 9

Num(n) == [kind |-> "number", val |-> n]
Fraction == [kind |-> "fraction", val |-> 0]
NaN == [kind |-> "NaN", val |-> 0]
UndefinedNumber == [kind |-> "undefined", val |-> 0]

\* the value of a string of decimal digits
RECURSIVE DecimalValue(_)
DecimalValue(ds) ==
  IF ds = <<>> THEN 0
  ELSE 10 * DecimalValue(SubSeq(ds, 1, Len(ds) - 1)) + DigitValue(ds[Len(ds)])

\* the string without its leading blanks
RECURSIVE TrimStart(_)
TrimStart(cs) == IF cs # <<>> /\ cs[1] = " " THEN TrimStart(Tail(cs)) ELSE cs

\* the length of the longest prefix of cs made of digits
DigitPrefix(cs) ==
  CHOOSE k \in 0..Len(cs) :
    /\ \A j \in 1..k : cs[j] \in Digits
    /\ k < Len(cs) => cs[k + 1] \notin Digits

\* parseInt(val, 10): blanks, a sign, then the digits up to the first
\* character that is not a digit; NaN when there is no digit
parseInt(cs) ==
  LET t == TrimStart(cs)
      signed == t # <<>> /\ t[1] \in {"-", "+"}
      body == IF signed THEN Tail(t) ELSE t
      k == DigitPrefix(body)
      v == DecimalValue(SubSeq(body, 1, k)) IN
    IF k = 0 THEN NaN
    ELSE IF signed /\ t[1] = "-" THEN Num(0 - v) ELSE Num(v)

\* the number a query string is coerced to: the whole string is read
ToNumber(cs) ==
  LET signed == cs # <<>> /\ cs[1] \in {"-", "+"}
      body == IF signed THEN Tail(cs) ELSE cs
      k == DigitPrefix(body)
      rest == SubSeq(body, k + 2, Len(body))
      v == DecimalValue(SubSeq(body, 1, k)) IN
    CASE cs = <<>> -> Num(0)
      [] k = 0 -> NaN
      [] k = Len(body) -> IF signed /\ cs[1] = "-" THEN Num(0 - v) ELSE Num(v)
      [] body[k + 1] = "." /\ rest # <<>> /\ DigitPrefix(rest) = Len(rest) ->
           IF \A j \in DOMAIN rest : rest[j] = "0"
           THEN (IF signed /\ cs[1] = "-" THEN Num(0 - v) ELSE Num(v))
           ELSE Fraction
      [] OTHER -> NaN

\* z.number().int()
IsInt(n) == n.kind = "number"

-----------------------------------------------------------------------------
(* Response envelopes *)

ErrorCodeToHttpStatus ==
  [c \in {"VALIDATION_ERROR", "BAD_REQUEST", "INVALID_ADDRESS", "CHAIN_NOT_SUPPORTED",
          "UNAUTHORIZED", "INVALID_SIWE_MESSAGE", "INVALID_SIGNATURE", "NONCE_INVALID",
          "FORBIDDEN", "NOT_FOUND", "TOKEN_NOT_FOUND", "POOL_NOT_FOUND",
          "POSITION_NOT_FOUND", "API_KEY_NOT_FOUND", "WALLET_ALREADY_REGISTERED",
          "CONFLICT", "UNPROCESSABLE_ENTITY", "TOO_MANY_REQUESTS",
          "INTERNAL_SERVER_ERROR", "BAD_GATEWAY", "SERVICE_UNAVAILABLE"} |->
     CASE c \in {"VALIDATION_ERROR", "BAD_REQUEST", "INVALID_ADDRESS",
                 "CHAIN_NOT_SUPPORTED"} -> 400
       [] c \in {"UNAUTHORIZED", "INVALID_SIWE_MESSAGE", "INVALID_SIGNATURE",
                 "NONCE_INVALID"} -> 401
       [] c = "FORBIDDEN" -> 403
       [] c \in {"NOT_FOUND", "TOKEN_NOT_FOUND", "POOL_NOT_FOUND",
                 "POSITION_NOT_FOUND", "API_KEY_NOT_FOUND"} -> 404
       [] c \in {"WALLET_ALREADY_REGISTERED", "CONFLICT"} -> 409
       [] c = "UNPROCESSABLE_ENTITY" -> 422
       [] c = "TOO_MANY_REQUESTS" -> 429
       [] c = "INTERNAL_SERVER_ERROR" -> 500
       [] c = "BAD_GATEWAY" -> 502
       [] OTHER -> 503]

\* what a response field can hold, as far as the callers can tell: nothing,
\* a fixed text of the handler, the violations of a schema, the text of the
\* thrown value, or values of the request
NoDetails == "<undefined>"
Violations == "validation.error.errors"
ErrorText == "error.message"
RequestContext == "request values"

NoData == [kind |-> "none"]
NoResponse == [sent |-> FALSE]

\* createErrorResponse(code, message, details) sent with the status of its code
createErrorResponse(code, message, details) ==
  [sent |-> TRUE, success |-> FALSE, status |-> ErrorCodeToHttpStatus[code],
   code |-> code, message |-> message, details |-> details, data |-> NoData]

\* a success envelope sent with the given status
createSuccessResponse(status, data) ==
  [sent |-> TRUE, success |-> TRUE, status |-> status, code |-> "-",
   message |-> "-", details |-> NoDetails, data |-> data]

\* error instanceof Error ? error.message : String(error)
MessageOrString(e) == ErrorText

-----------------------------------------------------------------------------
(* Schemas of the position list *)

\* the query of the position list: chainId, status, limit, offset
NoQuery == [chainId |-> Absent, status |-> Absent, limit |-> Absent, offset |-> Absent]
\* validation.data of the position list before any query was validated
NoQueryData == [chainId |-> UndefinedNumber, status |-> "all", limit |-> 0, offset |-> 0]

DefaultLimit == 20
MaxLimit == 100
DefaultOffset == 0

\* PaginationParamsSchema: limit is an integer in 1..100 (20 when omitted),
\* offset an integer >= 0 (0 when omitted), both coerced from the query string
PaginationParamsSchema(q) ==
  LET limit == IF q.limit.present THEN ToNumber(q.limit.chars) ELSE Num(DefaultLimit)
      offset == IF q.offset.present THEN ToNumber(q.offset.chars) ELSE Num(DefaultOffset) IN
    [success |-> /\ IsInt(limit) /\ limit.val >= 1 /\ limit.val <= MaxLimit
                 /\ IsInt(offset) /\ offset.val >= 0,
     data |-> [limit |-> limit.val, offset |-> offset.val]]

\* PositionStatusSchema
PositionStatusSchema == {"active", "closed", "all"}

\* ListUniswapV3PositionsQuerySchema.safeParse(queryParams): the pagination
\* params, chainId as parseInt reads it (undefined for an absent or empty
\* value) piped into an optional positive integer, and status (a whole word
\* kept as one element, 'all' when absent) piped into the status enum
ListUniswapV3PositionsQuerySchema(q) ==
  LET page == PaginationParamsSchema(q)
      chainId == IF q.chainId.present /\ q.chainId.chars # <<>>
                 THEN parseInt(q.chainId.chars) ELSE UndefinedNumber
      status == IF q.status.present THEN q.status.chars[1] ELSE "all" IN
    [success |-> /\ page.success
                 /\ chainId.kind = "undefined" \/ (IsInt(chainId) /\ chainId.val > 0)
                 /\ status \in PositionStatusSchema,
     data |-> [chainId |-> chainId, status |-> status,
               limit |-> page.data.limit, offset |-> page.data.offset]]

\* the query strings a client sends in the model
ChainIdParams ==
  {Absent, Str(<<>>), Str(<<"1">>), Str(<<"1", "2">>), Str(<<"1", "2", "a">>),
   Str(<<"1", ".", "5">>), Str(<<"a", "b", "c">>), Str(<<"0">>), Str(<<"-", "1">>)}
StatusParams == {Absent, Str(<<"closed">>), Str(<<"bogus">>)}
LimitParams ==
  {Absent, Str(<<"0">>), Str(<<"1">>), Str(<<"2">>), Str(<<"1", "0", "0">>),
   Str(<<"1", "0", "1">>), Str(<<"1", ".", "5">>)}
OffsetParams ==
  {Absent, Str(<<"-", "1">>), Str(<<"0">>), Str(<<"1">>), Str(<<"2">>),
   Str(<<"1", "0", "0", "0", "0">>)}
ListQueries ==
  [chainId : ChainIdParams, status : StatusParams, limit : LimitParams, offset : OffsetParams]

-----------------------------------------------------------------------------
(* Schema of the token search *)

\* the query of the token search: chainId, symbol, name, address
NoSearch == [chainId |-> Absent, symbol |-> Absent, name |-> Absent, address |-> Absent]

\* /^0x[a-fA-F0-9]{40}$/, on the words of the model
Erc20AddressRegex(cs) == cs = <<"0xA0b86991c6218b36c1d19D4a2e9Eb0cE3606eB48">>

\* the value of a key of the object handed to a schema, undefined when the
\* object has no such key
Param(qp, name) == IF name \in DOMAIN qp THEN qp[name] ELSE Absent

\* z.coerce.number() of a query value: Number(null) is 0
CoerceNumber(v) == IF v.present THEN ToNumber(v.chars) ELSE Num(0)

\* SearchErc20TokensQuerySchema.safeParse(queryParams)
SearchErc20TokensQuerySchema(qp) ==
  LET chainId == CoerceNumber(Param(qp, "chainId"))
      symbol == Param(qp, "symbol")
      name == Param(qp, "name")
      address == Param(qp, "address") IN
    [success |-> /\ IsInt(chainId) /\ chainId.val > 0
                 /\ symbol.present => symbol.chars # <<>>
                 /\ name.present => name.chars # <<>>
                 /\ address.present => Erc20AddressRegex(address.chars)
                 /\ symbol.present \/ name.present \/ address.present,
     data |-> [chainId |-> chainId, symbol |-> symbol, name |-> name, address |-> address]]

\* searchParams.get(name) || undefined
OrUndefined(v) == IF v.present /\ v.chars # <<>> THEN v ELSE Absent

\* queryParams of the search route: chainId, symbol and name of the query string
SearchQueryParams(q) ==
  [chainId |-> q.chainId, symbol |-> OrUndefined(q.symbol), name |-> OrUndefined(q.name)]

\* the query strings a client sends in the model
SearchQueries ==
  [chainId : {Absent, Str(<<"1">>), Str(<<"0">>), Str(<<"1", ".", "5">>), Str(<<"a", "b", "c">>)},
   symbol : {Absent, Str(<<"usd">>), Str(<<>>)},
   name : {Absent, Str(<<"coin">>)},
   address : {Absent, Str(<<"0xA0b86991c6218b36c1d19D4a2e9Eb0cE3606eB48">>), Str(<<"0x12">>)}]

-----------------------------------------------------------------------------
(* State *)

VARIABLES
  req,     \* req[r]: the request slot r is serving
  pc,      \* pc[r]: the await the request is at
  local,   \* local[r]: the locals of withAuth and of the route
  trace,   \* trace[r]: the calls made for the request, in order
  resp,    \* resp[r]: the response returned to the caller
  keys,    \* key store: owner of every API key token (NoUser: no such key)
  nonces,  \* nonce cache: the nonces that are valid
  issued,  \* number of nonces generated so far
  wallets  \* wallet table: owner of every registered address

vars == <<req, pc, local, trace, resp, keys, nonces, issued, wallets>>
reqVars == <<req, pc, local, trace, resp>>
envVars == <<keys, nonces, issued, wallets>>

NoRequest == [route |-> "none"]
\* lastUsed is the promise of apiKeyService.updateLastUsed(...).catch(...):
\* not created ("none"), pending, resolved, or rejected (and logged)
NoLocal ==
  [user |-> NoUser, owner |-> NoUser, position |-> NoPosition, caught |-> NoThrow,
   lastUsed |-> "none", data |-> NoQueryData]

\* the flags a pool lookup can carry in its query string; flags is the set
\* of those the request sets to 'true'
PoolQueryFlags == {"enrichMetrics", "metrics"}

Request(rt, h, s, i) ==
  [route |-> rt, hdr |-> h, sess |-> s, input |-> i, target |-> NoPosition,
   message |-> "-", signature |-> "-", nonce |-> 0, address |-> "-",
   keyId |-> "-", flags |-> {}, query |-> NoQuery, body |-> [events |-> <<>>],
   search |-> NoSearch]

\* a request to the position list; input tells whether its query is valid
ListRequest(h, s, q) ==
  [Request("pos_list", h, s,
           IF ListUniswapV3PositionsQuerySchema(q).success THEN "ok" ELSE "invalid")
     EXCEPT !.query = q]

\* a request to the token search; input tells whether the route finds its
\* query valid
SearchRequest(h, s, q) ==
  [Request("erc20_search", h, s,
           IF SearchErc20TokensQuerySchema(SearchQueryParams(q)).success THEN "ok" ELSE "invalid")
     EXCEPT !.search = q]

\* the requests a client can send to a route
RequestsTo(rt) ==
  CASE rt \in PublicRoutes -> {Request(rt, NoHeader, "none", "ok")}
    [] rt = "apikeys_get" ->
         {Request(rt, h, s, "ok") : h \in AuthHeaders, s \in SessionOutcomes}
    [] rt = "apikeys_delete" ->
         {[Request(rt, h, s, IF k = "" THEN "invalid" ELSE "ok") EXCEPT !.keyId = k] :
            h \in AuthHeaders, s \in SessionOutcomes, k \in {"", "key_ghost", "key_new"}}
    [] rt \in {"apikeys_post", "erc20_post"} ->
         {Request(rt, h, s, i) : h \in AuthHeaders, s \in SessionOutcomes,
                                 i \in {"ok", "invalid"} \cup NotJson}
    [] rt = "erc20_search" ->
         \* every credential with two queries, two credentials with every query
         {SearchRequest(h, s, q) :
            h \in AuthHeaders, s \in SessionOutcomes,
            q \in {[NoSearch EXCEPT !.chainId = Str(<<"1">>)],
                    [NoSearch EXCEPT !.chainId = Str(<<"1">>), !.symbol = Str(<<"usd">>)]}}
         \cup {SearchRequest("Bearer mc_u1", "none", q) : q \in SearchQueries}
         \cup {SearchRequest(NoHeader, "u2", q) : q \in SearchQueries}
    [] rt = "pos_list" ->
         \* every credential with two queries, two credentials with every query
         {ListRequest(h, s, q) :
            h \in AuthHeaders, s \in SessionOutcomes,
            q \in {NoQuery, [NoQuery EXCEPT !.limit = Str(<<"0">>)]}}
         \cup {ListRequest("Bearer mc_u1", "none", q) : q \in ListQueries}
         \cup {ListRequest(NoHeader, "u2", q) : q \in ListQueries}
    [] rt = "pos_get" ->
         {[Request(rt, h, s, i) EXCEPT !.target = IF i = "ok" THEN p ELSE NoPosition] :
            h \in AuthHeaders, s \in SessionOutcomes, i \in {"ok", "invalid"},
            p \in Positions \cup {NoPosition}}
    [] rt = "pool_get" ->
         {[Request(rt, h, s, i) EXCEPT !.flags = IF i = "ok" THEN f ELSE {}] :
            h \in AuthHeaders, s \in SessionOutcomes,
            i \in {"ok", "invalid", "invalidQuery"}, f \in SUBSET PoolQueryFlags}
    [] OTHER ->  \* link_wallet
         {Request(rt, h, s, i) : h \in AuthHeaders, s \in SessionOutcomes,
                                 i \in {"invalid"} \cup NotJson}
         \cup {[Request(rt, h, s, "ok") EXCEPT !.message = "malformed"] :
                 h \in AuthHeaders, s \in SessionOutcomes}
         \cup {[Request(rt, h, s, "ok") EXCEPT !.message = "siwe", !.signature = g,
                                               !.nonce = n, !.address = a] :
                 h \in AuthHeaders, s \in SessionOutcomes, g \in {"good", "bad"},
                 n \in Nonces, a \in Addrs}

Init ==
  /\ req = [r \in Reqs |-> NoRequest]
  /\ pc = [r \in Reqs |-> "idle"]
  /\ local = [r \in Reqs |-> NoLocal]
  /\ trace = [r \in Reqs |-> <<>>]
  /\ resp = [r \in Reqs |-> NoResponse]
  /\ keys = [k \in KeyTokens |->
               CASE k = "mc_u1" -> "u1" [] k = "mc_ghost" -> GhostUser [] OTHER -> NoUser]
  /\ nonces = {}
  /\ issued = 0
  /\ wallets = [a \in Addrs |-> NoUser]

\* one call into the services layer or the session provider
Call(op, arg) == [op |-> op, arg |-> arg, out |-> "ok"]
\* the last call of cs returned null, or threw
Returned(cs, out) == [i \in DOMAIN cs |-> IF i = Len(cs) THEN [cs[i] EXCEPT !.out = out] ELSE cs[i]]
Null(cs) == Returned(cs, "null")
Threw(cs) == Returned(cs, "throw")

\* the request moves to await p with response rs, having made the calls cs
Move(r, p, rs, cs, lc) ==
  /\ pc' = [pc EXCEPT ![r] = p]
  /\ resp' = [resp EXCEPT ![r] = rs]
  /\ trace' = [trace EXCEPT ![r] = @ \o cs]
  /\ local' = [local EXCEPT ![r] = lc]
  /\ UNCHANGED req

Goto(r, p, cs) == Move(r, p, resp[r], cs, local[r])
Respond(r, rs, cs) == Move(r, "responded", rs, cs, local[r])
\* the promise of the route rejects: no response is built by this layer
Escape(r, cs) == Move(r, "escaped", NoResponse, cs, local[r])

Caught(r, e) == [local[r] EXCEPT !.caught = e]

-----------------------------------------------------------------------------
(* Arrival and departure of requests *)

Receive(r, rq) ==
  /\ pc[r] = "idle"
  /\ req' = [req EXCEPT ![r] = rq]
  /\ pc' = [pc EXCEPT ![r] = "start"]
  /\ UNCHANGED <<local, trace, resp, envVars>>

\* the slot is free again once the response is out (or the promise rejected)
Finish(r) ==
  /\ pc[r] \in {"responded", "escaped"}
  /\ req' = [req EXCEPT ![r] = NoRequest]
  /\ pc' = [pc EXCEPT ![r] = "idle"]
  /\ local' = [local EXCEPT ![r] = NoLocal]
  /\ trace' = [trace EXCEPT ![r] = <<>>]
  /\ resp' = [resp EXCEPT ![r] = NoResponse]
  /\ UNCHANGED envVars

-----------------------------------------------------------------------------
(* withAuth *)

\* authHeader?.replace('Bearer ', '').trim(); "" stands for undefined
BearerToken(h) ==
  CASE h = "Bearer mc_u1" -> "mc_u1"
    [] h = "Bearer mc_ghost" -> "mc_ghost"
    [] h = "Bearer mc_new" -> "mc_new"
    [] h = "Bearer mc_unknown" -> "mc_unknown"
    [] h = "Bearer eyJ" -> "eyJ"
    [] OTHER -> ""

\* apiKey && apiKey.startsWith('mc_')
HasApiKey(h) == BearerToken(h) \in {"mc_u1", "mc_ghost", "mc_new", "mc_unknown"}

\* apiKeyService.validateApiKey(key): the owner of the key, NoUser for null
KeyOwner(k) == IF k \in KeyTokens THEN keys[k] ELSE NoUser

Unauthorized(message) == createErrorResponse("UNAUTHORIZED", message, NoDetails)

\* handler(user)
InvokeHandler(r, u, cs) ==
  Move(r, "handler", resp[r], cs \o <<Call("handler", u)>>, [local[r] EXCEPT !.user = u])

\* validateApiKey with the update of the timestamp awaited inside the try
WithAuthValidateApiKey_AwaitsLastUsed(r) ==
  /\ pc[r] = "start"
  /\ req[r].route \in WithAuthRoutes
  /\ HasApiKey(req[r].hdr)
  /\ LET k == BearerToken(req[r].hdr) IN
       \/ /\ KeyOwner(k) # NoUser
          /\ Move(r, "findUser", resp[r],
                  <<Call("validateApiKey", k), Call("updateLastUsed", k)>>,
                  [local[r] EXCEPT !.owner = KeyOwner(k), !.lastUsed = "resolved"])
       \/ /\ KeyOwner(k) # NoUser
          /\ Move(r, "session", resp[r],
                  <<Call("validateApiKey", k), Call("updateLastUsed", k)>>,
                  [local[r] EXCEPT !.owner = KeyOwner(k), !.lastUsed = "rejected"])
       \/ /\ KeyOwner(k) = NoUser
          /\ Goto(r, "session", Null(<<Call("validateApiKey", k)>>))
       \/ \E e \in Throws("validateApiKey") : Goto(r, "session", Threw(<<Call("validateApiKey", k)>>))
  /\ UNCHANGED envVars

\* a key the key store does not know is answered 401 at once
WithAuthValidateApiKey_RejectsUnknown(r) ==
  /\ pc[r] = "start"
  /\ req[r].route \in WithAuthRoutes
  /\ HasApiKey(req[r].hdr)
  /\ LET k == BearerToken(req[r].hdr) IN
       \/ /\ KeyOwner(k) # NoUser
          /\ Move(r, "findUser", resp[r],
                  <<Call("validateApiKey", k), Call("updateLastUsed", k)>>,
                  [local[r] EXCEPT !.owner = KeyOwner(k), !.lastUsed = "pending"])
       \/ /\ KeyOwner(k) = NoUser
          /\ Respond(r, Unauthorized("Invalid API key"), Null(<<Call("validateApiKey", k)>>))
       \/ \E e \in Throws("validateApiKey") : Goto(r, "session", Threw(<<Call("validateApiKey", k)>>))
  /\ UNCHANGED envVars

\* withAuth step 1, and validateApiKey up to the fetch of the user; the
\* update of the last-used timestamp is started and not awaited
WithAuthValidateApiKey(r) ==
  /\ pc[r] = "start"
  /\ req[r].route \in WithAuthRoutes
  /\ HasApiKey(req[r].hdr)
  /\ LET k == BearerToken(req[r].hdr) IN
       \/ /\ KeyOwner(k) # NoUser
          /\ Move(r, "findUser", resp[r],
                  <<Call("validateApiKey", k), Call("updateLastUsed", k)>>,
                  [local[r] EXCEPT !.owner = KeyOwner(k), !.lastUsed = "pending"])
       \/ /\ KeyOwner(k) = NoUser
          /\ Goto(r, "session", Null(<<Call("validateApiKey", k)>>))
       \/ \E e \in Throws("validateApiKey") : Goto(r, "session", Threw(<<Call("validateApiKey", k)>>))
  /\ UNCHANGED envVars

\* the promise of updateLastUsed settles, at any time after it was created:
\* it resolves, or it rejects and its catch handler logs the error
UpdateLastUsedSettle(r) ==
  /\ pc[r] # "idle"
  /\ local[r].lastUsed = "pending"
  /\ \E o \in {"resolved", "rejected"} :
       local' = [local EXCEPT ![r].lastUsed = o]
  /\ UNCHANGED <<req, pc, trace, resp, envVars>>

\* findUserById without the check of its result
WithAuthFindUser_Unchecked(r) ==
  /\ pc[r] = "findUser"
  /\ LET c == <<Call("findUserById", local[r].owner)>> IN
       \/ Goto(r, "wallets", c)
       \/ \E e \in Throws("findUserById") : Goto(r, "session", Threw(c))
  /\ UNCHANGED envVars

\* the timestamp of the key is updated once more when its user was found
WithAuthFindUser_ThenLastUsed(r) ==
  /\ pc[r] = "findUser"
  /\ LET c == <<Call("findUserById", local[r].owner)>> IN
       \/ /\ local[r].owner \in Users
          /\ Goto(r, "wallets", c \o <<Call("updateLastUsed", BearerToken(req[r].hdr))>>)
       \/ /\ local[r].owner \notin Users
          /\ Goto(r, "session", Null(c))
       \/ \E e \in Throws("findUserById") : Goto(r, "session", Threw(c))
  /\ UNCHANGED envVars

\* userService.findUserById(apiKeyRecord.userId)
WithAuthFindUser(r) ==
  /\ pc[r] = "findUser"
  /\ LET c == <<Call("findUserById", local[r].owner)>> IN
       \/ /\ local[r].owner \in Users
          /\ Goto(r, "wallets", c)
       \/ /\ local[r].owner \notin Users
          /\ Goto(r, "session", Null(c))
       \/ \E e \in Throws("findUserById") : Goto(r, "session", Threw(c))
  /\ UNCHANGED envVars

\* the session is consulted although the key validated
WithAuthGetWallets_ThenSession(r) ==
  /\ pc[r] = "wallets"
  /\ LET c == <<Call("getUserWallets", local[r].owner)>> IN
       \/ Goto(r, "session", c)
       \/ \E e \in Throws("getUserWallets") : Goto(r, "session", Threw(c))
  /\ UNCHANGED envVars

\* userService.getUserWallets(user.id), then handler(user)
WithAuthGetWallets(r) ==
  /\ pc[r] = "wallets"
  /\ LET c == <<Call("getUserWallets", local[r].owner)>> IN
       \/ InvokeHandler(r, local[r].owner, c)
       \/ \E e \in Throws("getUserWallets") : Goto(r, "session", Threw(c))
  /\ UNCHANGED envVars

\* withAuth steps 2 and 3
WithAuthSession(r) ==
  /\ req[r].route \in WithAuthRoutes
  /\ \/ pc[r] = "start" /\ ~HasApiKey(req[r].hdr)
     \/ pc[r] = "session"
  /\ LET c == <<Call("auth", "-")>> IN
       CASE req[r].sess = "throws" -> Escape(r, Threw(c))
         [] req[r].sess \in Users -> InvokeHandler(r, req[r].sess, c)
         [] OTHER ->
              Respond(r, Unauthorized("Authentication required. Provide a valid session or API key."),
                      Null(c))
  /\ UNCHANGED envVars

\* the session check, preceded by the API key check of withAuth
SessionOnly_OrApiKey(r, rt) ==
  /\ pc[r] = "start"
  /\ req[r].route = rt
  /\ LET c == <<Call("auth", "-")>>
         k == BearerToken(req[r].hdr) IN
       IF HasApiKey(req[r].hdr) /\ KeyOwner(k) \in Users
       THEN Move(r, "body", resp[r], <<Call("validateApiKey", k)>>,
                 [local[r] EXCEPT !.user = KeyOwner(k)])
       ELSE CASE req[r].sess = "throws" -> Escape(r, Threw(c))
              [] req[r].sess \in Users ->
                   Move(r, "body", resp[r], c, [local[r] EXCEPT !.user = req[r].sess])
              [] OTHER -> Respond(r, Unauthorized("Session authentication required"), Null(c))
  /\ UNCHANGED envVars

\* the session check at the head of the API-key management routes
SessionOnly(r, rt) ==
  /\ pc[r] = "start"
  /\ req[r].route = rt
  /\ LET c == <<Call("auth", "-")>> IN
       CASE req[r].sess = "throws" -> Escape(r, Threw(c))
         [] req[r].sess \in Users ->
              Move(r, "body", resp[r], c, [local[r] EXCEPT !.user = req[r].sess])
         [] OTHER -> Respond(r, Unauthorized("Session authentication required"), Null(c))
  /\ UNCHANGED envVars

-----------------------------------------------------------------------------
(* Shared shapes of the route bodies *)

ValidationError(message) == createErrorResponse("VALIDATION_ERROR", message, Violations)

\* the generic catch: the text of the thrown value goes out as details
InternalError(message, e) ==
  createErrorResponse("INTERNAL_SERVER_ERROR", message, MessageOrString(e))

\* schema.safeParse(input) of a route is logged with its outcome
Parsed(r) ==
  [op |-> "safeParse", arg |-> req[r].input,
   out |-> IF req[r].input = "ok" THEN "ok" ELSE "fail"]

-----------------------------------------------------------------------------
(* GET /api/health, GET /api/v1/auth/nonce *)

Health(r) ==
  /\ pc[r] = "start"
  /\ req[r].route = "health"
  /\ Respond(r, createSuccessResponse(200, [kind |-> "health", status |-> "healthy"]), <<>>)
  /\ UNCHANGED envVars

NonceGet(r) ==
  /\ pc[r] = "start"
  /\ req[r].route = "nonce_get"
  /\ \/ /\ issued < MaxNonces
        /\ issued' = issued + 1
        /\ nonces' = nonces \cup {issued + 1}
        /\ Respond(r, createSuccessResponse(200, [kind |-> "nonce", nonce |-> issued + 1]),
                   <<Call("generateNonce", "-")>>)
     \/ /\ \E e \in Throws("generateNonce") :
             Move(r, "responded", InternalError("Failed to generate nonce", e),
                  Threw(<<Call("generateNonce", "-")>>), Caught(r, e))
        /\ UNCHANGED <<nonces, issued>>
  /\ UNCHANGED <<keys, wallets>>

\* a nonce of the cache reaches the end of its 10 minutes
NonceExpire(n) ==
  /\ n \in nonces
  /\ nonces' = nonces \ {n}
  /\ UNCHANGED <<reqVars, keys, issued, wallets>>

-----------------------------------------------------------------------------
(* GET, POST /api/v1/user/api-keys, DELETE /api/v1/user/api-keys/:id *)

ApiKeysGetAuth(r) == SessionOnly(r, "apikeys_get")
ApiKeysPostAuth(r) == SessionOnly(r, "apikeys_post")
ApiKeysDeleteAuth(r) == SessionOnly(r, "apikeys_delete")

\* the fields of one entry of the listing
ApiKeyDisplayFields == {"id", "name", "keyPrefix", "lastUsed", "createdAt", "updatedAt"}

\* the row the key store keeps of a key: its hash, never the key
ApiKeyRecord(k) ==
  [id |-> KeyId[k], userId |-> keys[k], name |-> "name", keyHash |-> "sha256",
   keyPrefix |-> KeyPrefix[k], lastUsed |-> IF k = "mc_new" THEN "null" ELSE "Date",
   createdAt |-> "Date", updatedAt |-> "Date"]

\* apiKeyService.getUserApiKeys(userId)
GetUserApiKeys(userId) == {ApiKeyRecord(k) : k \in {k \in KeyTokens : keys[k] = userId}}

\* one entry of apiKeysFormatted
ApiKeyFormatted(key) ==
  [id |-> key.id, name |-> key.name, keyPrefix |-> key.keyPrefix,
   lastUsed |-> IF key.lastUsed = "null" THEN "null" ELSE "ISO string",
   createdAt |-> "ISO string", updatedAt |-> "ISO string"]

\* the rows of the service are sent as they are
ApiKeysGet_WholeRecords(r) ==
  /\ pc[r] = "body"
  /\ req[r].route = "apikeys_get"
  /\ LET u == local[r].user
         c == <<Call("getUserApiKeys", u)>> IN
       \/ Respond(r, createSuccessResponse(200,
                       [kind |-> "apiKeys", items |-> GetUserApiKeys(u)]), c)
       \/ \E e \in Throws("getUserApiKeys") :
            Move(r, "responded", InternalError("Failed to retrieve API keys", e), Threw(c), Caught(r, e))
  /\ UNCHANGED envVars

ApiKeysGet(r) ==
  /\ pc[r] = "body"
  /\ req[r].route = "apikeys_get"
  /\ LET u == local[r].user
         c == <<Call("getUserApiKeys", u)>> IN
       \/ Respond(r, createSuccessResponse(200,
                       [kind |-> "apiKeys",
                        items |-> {ApiKeyFormatted(key) : key \in GetUserApiKeys(u)}]), c)
       \/ \E e \in Throws("getUserApiKeys") :
            Move(r, "responded", InternalError("Failed to retrieve API keys", e), Threw(c), Caught(r, e))
  /\ UNCHANGED envVars

ApiKeysPostValidate(r) ==
  /\ pc[r] = "body"
  /\ req[r].route = "apikeys_post"
  /\ CASE req[r].input \in NotJson ->
            \E e \in JsonSyntaxErrors(req[r].input) :
              Move(r, "responded", InternalError("Failed to create API key", e),
                   <<>>, Caught(r, e))
       [] req[r].input = "invalid" ->
            Respond(r, ValidationError("Invalid request data"), <<Parsed(r)>>)
       [] OTHER -> Goto(r, "delegate", <<Parsed(r)>>)
  /\ UNCHANGED envVars

ApiKeysPostCreate(r) ==
  /\ pc[r] = "delegate"
  /\ req[r].route = "apikeys_post"
  /\ LET u == local[r].user
         c == <<Call("createApiKey", u)>> IN
       \/ /\ keys["mc_new"] = NoUser
          /\ keys' = [keys EXCEPT !["mc_new"] = u]
          /\ Respond(r, createSuccessResponse(201,
                          [kind |-> "createdApiKey", id |-> KeyId["mc_new"], name |-> "name",
                           key |-> "mc_new", keyPrefix |-> KeyPrefix["mc_new"],
                           createdAt |-> "ISO string"]), c)
       \/ /\ \E e \in Throws("createApiKey") :
               Move(r, "responded", InternalError("Failed to create API key", e), Threw(c), Caught(r, e))
          /\ UNCHANGED keys
  /\ UNCHANGED <<nonces, issued, wallets>>

\* the catch around revokeApiKey, and the outer catch it rethrows to
CatchRevoke(e) ==
  IF e.isError /\ (Includes(e, "not found") \/ Includes(e, "does not belong"))
  THEN createErrorResponse("API_KEY_NOT_FOUND",
                           "API key not found or does not belong to user", RequestContext)
  ELSE InternalError("Failed to revoke API key", e)

ApiKeysDelete(r) ==
  /\ pc[r] = "body"
  /\ req[r].route = "apikeys_delete"
  /\ LET u == local[r].user
         keyId == req[r].keyId
         k == CHOOSE k \in KeyTokens : keyId # "" => KeyId[k] = keyId
         c == <<Call("revokeApiKey", u)>> IN
       \/ /\ keyId = ""
          /\ Respond(r, createErrorResponse("VALIDATION_ERROR", "Invalid API key ID", NoDetails), <<>>)
          /\ UNCHANGED keys
       \/ /\ keyId # ""
          /\ keys[k] = u
          /\ keys' = [keys EXCEPT ![k] = NoUser]
          /\ Respond(r, createSuccessResponse(200, [kind |-> "revoked", id |-> keyId]), c)
       \/ /\ keyId # ""
          /\ keys[k] # u
          /\ Move(r, "responded", CatchRevoke(Thrown(TRUE, {"not found"})), Threw(c),
                  Caught(r, Thrown(TRUE, {"not found"})))
          /\ UNCHANGED keys
       \/ /\ keyId # ""
          /\ \E e \in Throws("revokeApiKey") : Move(r, "responded", CatchRevoke(e), Threw(c), Caught(r, e))
          /\ UNCHANGED keys
  /\ UNCHANGED <<nonces, issued, wallets>>

-----------------------------------------------------------------------------
(* GET /api/v1/positions/uniswapv3/list *)

\* the outcome of the route's safeParse, as logged
Validated(ok) == [op |-> "safeParse", arg |-> "query", out |-> IF ok THEN "ok" ELSE "fail"]

\* queryParams of the list route: the four parameters of the query string
QueryParams(r) == req[r].query

\* the validation failure is answered, but the handler goes on
PosListValidate_NoReturn(r) ==
  /\ pc[r] = "handler"
  /\ req[r].route = "pos_list"
  /\ LET validation == ListUniswapV3PositionsQuerySchema(QueryParams(r)) IN
       Move(r, "delegate", resp[r], <<Validated(validation.success)>>,
            [local[r] EXCEPT !.data = validation.data])
  /\ UNCHANGED envVars

\* the query is validated before withAuth is entered
PosListValidate_BeforeAuth(r) ==
  /\ pc[r] \in {"start", "handler"}
  /\ req[r].route = "pos_list"
  /\ LET validation == ListUniswapV3PositionsQuerySchema(QueryParams(r)) IN
       IF ~validation.success
       THEN Respond(r, ValidationError("Invalid query parameters"), <<Validated(FALSE)>>)
       ELSE Move(r, IF pc[r] = "start" THEN "start" ELSE "delegate", resp[r],
                 <<Validated(TRUE)>>, [local[r] EXCEPT !.data = validation.data])
  /\ UNCHANGED envVars

\* the limit of the query string is not passed to the schema
PosListValidate_DropsLimit(r) ==
  /\ pc[r] = "handler"
  /\ req[r].route = "pos_list"
  /\ LET validation ==
           ListUniswapV3PositionsQuerySchema([QueryParams(r) EXCEPT !.limit = Absent]) IN
       IF ~validation.success
       THEN Respond(r, ValidationError("Invalid query parameters"), <<Validated(FALSE)>>)
       ELSE Move(r, "delegate", resp[r], <<Validated(TRUE)>>,
                 [local[r] EXCEPT !.data = validation.data])
  /\ UNCHANGED envVars

\* step 1: parse and validate the query parameters
PosListValidate(r) ==
  /\ pc[r] = "handler"
  /\ req[r].route = "pos_list"
  /\ LET validation == ListUniswapV3PositionsQuerySchema(QueryParams(r)) IN
       IF ~validation.success
       THEN Respond(r, ValidationError("Invalid query parameters"), <<Validated(FALSE)>>)
       ELSE Move(r, "delegate", resp[r], <<Validated(TRUE)>>,
                 [local[r] EXCEPT !.data = validation.data])
  /\ UNCHANGED envVars

Min(a, b) == IF a <= b THEN a ELSE b

\* uniswapV3PositionService.findMany(userId, {chainId, status, limit, offset}):
\* of the positions of userId that pass the filters, newest first, the page
\* of limit positions from offset on, and the number of them all
FindMany(userId, f) ==
  LET matching ==
        SelectSeq(PositionsNewestFirst,
                  LAMBDA p : /\ PositionOwner[p] = userId
                             /\ f.chainId.kind = "undefined" \/ PositionChain[p] = f.chainId.val
                             /\ f.status = "all" \/ (f.status = "active") = PositionActive[p])
      total == Len(matching) IN
    [positions |-> IF f.offset >= total THEN <<>>
                   ELSE SubSeq(matching, f.offset + 1, Min(f.offset + f.limit, total)),
     total |-> total]

\* createPaginatedResponse(items, total, limit, offset)
createPaginatedResponse(items, total, limit, offset) ==
  [sent |-> TRUE, success |-> TRUE, status |-> 200, code |-> "-", message |-> "-",
   details |-> NoDetails,
   data |-> [kind |-> "positions", items |-> items,
             ids |-> {items[i] : i \in DOMAIN items}],
   pagination |-> [total |-> total, limit |-> limit, offset |-> offset,
                   hasMore |-> offset + limit < total],
   meta |-> [filters |-> NoQueryData]]

\* the response of the list: ...createPaginatedResponse(...), meta: {filters}
ListResponse(items, total, f) ==
  [createPaginatedResponse(items, total, f.limit, f.offset)
     EXCEPT !.meta = [filters |-> [f EXCEPT !.limit = 0, !.offset = 0]]]

\* the length of the page is reported as the total
PosListFindMany_TotalIsPageLength(r) ==
  /\ pc[r] = "delegate"
  /\ req[r].route = "pos_list"
  /\ LET u == local[r].user
         f == local[r].data
         found == FindMany(u, f)
         c == <<Call("findMany", u)>> IN
       \/ Respond(r, ListResponse(found.positions, Len(found.positions), f), c)
       \/ \E e \in Throws("findMany") :
            Move(r, "responded", InternalError("Failed to retrieve positions", e), Threw(c), Caught(r, e))
  /\ UNCHANGED envVars

\* the offset is passed to the service and not to the response
PosListFindMany_OffsetDropped(r) ==
  /\ pc[r] = "delegate"
  /\ req[r].route = "pos_list"
  /\ LET u == local[r].user
         f == local[r].data
         found == FindMany(u, f)
         c == <<Call("findMany", u)>> IN
       \/ Respond(r, ListResponse(found.positions, found.total, [f EXCEPT !.offset = 0]), c)
       \/ \E e \in Throws("findMany") :
            Move(r, "responded", InternalError("Failed to retrieve positions", e), Threw(c), Caught(r, e))
  /\ UNCHANGED envVars

\* steps 2 to 4: findMany(user.id, ...), the paginated response
PosListFindMany(r) ==
  /\ pc[r] = "delegate"
  /\ req[r].route = "pos_list"
  /\ LET u == local[r].user
         f == local[r].data
         found == FindMany(u, f)
         c == <<Call("findMany", u)>> IN
       \/ Respond(r, ListResponse(found.positions, found.total, f), c)
       \/ \E e \in Throws("findMany") :
            Move(r, "responded", InternalError("Failed to retrieve positions", e), Threw(c), Caught(r, e))
  /\ UNCHANGED envVars

-----------------------------------------------------------------------------
(* GET /api/v1/positions/uniswapv3/:chainId/:nftId *)

\* the catch with the rule of the missing position tried first
CatchPosGet_NotFoundFirst(e) ==
  IF e.isError /\ (Includes(e, "not found") \/ Includes(e, "does not exist"))
  THEN createErrorResponse("POSITION_NOT_FOUND", "Position not found", ErrorText)
  ELSE IF e.isError /\ (Includes(e, "not configured") \/ Includes(e, "not supported"))
  THEN createErrorResponse("CHAIN_NOT_SUPPORTED", "Chain not supported", ErrorText)
  ELSE IF e.isError /\ (Includes(e, "Failed to read") \/ Includes(e, "contract")
                        \/ Includes(e, "RPC"))
  THEN createErrorResponse("BAD_REQUEST", "Failed to refresh position data from blockchain",
                           ErrorText)
  ELSE InternalError("Failed to fetch position", e)

CatchPosGet(e) ==
  IF e.isError /\ (Includes(e, "not configured") \/ Includes(e, "not supported"))
  THEN createErrorResponse("CHAIN_NOT_SUPPORTED", "Chain not supported", ErrorText)
  ELSE IF e.isError /\ (Includes(e, "not found") \/ Includes(e, "does not exist"))
  THEN createErrorResponse("POSITION_NOT_FOUND", "Position not found", ErrorText)
  ELSE IF e.isError /\ (Includes(e, "Failed to read") \/ Includes(e, "contract")
                        \/ Includes(e, "RPC"))
  THEN createErrorResponse("BAD_REQUEST", "Failed to refresh position data from blockchain",
                           ErrorText)
  ELSE InternalError("Failed to fetch position", e)

PosGetValidate(r) ==
  /\ pc[r] = "handler"
  /\ req[r].route = "pos_get"
  /\ IF req[r].input = "invalid"
     THEN Respond(r, ValidationError("Invalid path parameters"), <<Parsed(r)>>)
     ELSE Goto(r, "delegate", <<Parsed(r)>>)
  /\ UNCHANGED envVars

\* findByPositionHash(userId, hash): the position with that hash among the
\* positions of userId, or null
FindByPositionHash(u, p) ==
  IF p \in Positions /\ PositionOwner[p] = u THEN p ELSE NoPosition

\* the lookup keyed on the owner of the position instead of the caller
PosGetFind_Unscoped(r) ==
  /\ pc[r] = "delegate"
  /\ req[r].route = "pos_get"
  /\ LET u == IF req[r].target \in Positions THEN PositionOwner[req[r].target]
              ELSE local[r].user
         found == FindByPositionHash(u, req[r].target)
         c == <<Call("findByPositionHash", u)>> IN
       \/ /\ found = NoPosition
          /\ Respond(r, createErrorResponse("POSITION_NOT_FOUND", "Position not found",
                                            RequestContext), Null(c))
       \/ /\ found # NoPosition
          /\ Move(r, "refresh", resp[r], c, [local[r] EXCEPT !.position = found])
       \/ \E e \in Throws("findByPositionHash") :
            Move(r, "responded", CatchPosGet(e), Threw(c), Caught(r, e))
  /\ UNCHANGED envVars

PosGetFind(r) ==
  /\ pc[r] = "delegate"
  /\ req[r].route = "pos_get"
  /\ LET u == local[r].user
         found == FindByPositionHash(u, req[r].target)
         c == <<Call("findByPositionHash", u)>> IN
       \/ /\ found = NoPosition
          /\ Respond(r, createErrorResponse("POSITION_NOT_FOUND", "Position not found",
                                            RequestContext), Null(c))
       \/ /\ found # NoPosition
          /\ Move(r, "refresh", resp[r], c, [local[r] EXCEPT !.position = found])
       \/ \E e \in Throws("findByPositionHash") : Move(r, "responded", CatchPosGet(e), Threw(c), Caught(r, e))
  /\ UNCHANGED envVars

\* refresh is called a second time when it threw
PosGetRefresh_Retried(r) ==
  /\ pc[r] = "refresh"
  /\ LET c == <<Call("refresh", local[r].position)>> IN
       \/ Respond(r, createSuccessResponse(200,
                       [kind |-> "position", id |-> local[r].position]), c)
       \/ \E e \in Throws("refresh") :
            Respond(r, createSuccessResponse(200,
                         [kind |-> "position", id |-> local[r].position]), Threw(c) \o c)
       \/ \E e \in Throws("refresh") :
            Move(r, "responded", CatchPosGet(e), Threw(c) \o Threw(c), Caught(r, e))
  /\ UNCHANGED envVars

PosGetRefresh(r) ==
  /\ pc[r] = "refresh"
  /\ LET c == <<Call("refresh", local[r].position)>> IN
       \/ Respond(r, createSuccessResponse(200,
                       [kind |-> "position", id |-> local[r].position]), c)
       \/ \E e \in Throws("refresh") : Move(r, "responded", CatchPosGet(e), Threw(c), Caught(r, e))
  /\ UNCHANGED envVars

-----------------------------------------------------------------------------
(* POST /api/v1/tokens/erc20, GET /api/v1/tokens/erc20/search *)

CatchErc20Post(e) ==
  IF e.isError /\ Includes(e, "Invalid Ethereum address")
  THEN createErrorResponse("INVALID_ADDRESS", "Invalid Ethereum address format", ErrorText)
  ELSE IF e.isError /\ Includes(e, "not configured")
  THEN createErrorResponse("CHAIN_NOT_SUPPORTED", "Chain not supported", ErrorText)
  ELSE IF e.isError /\ (Includes(e, "does not implement ERC-20")
                        \/ Includes(e, "Failed to read token metadata"))
  THEN createErrorResponse("BAD_REQUEST", "Contract does not implement ERC-20 interface",
                           ErrorText)
  ELSE IF e.isError /\ (Includes(e, "CoinGecko") \/ Includes(e, "enrichment"))
  THEN createErrorResponse("TOKEN_NOT_FOUND",
                           "Token not found on CoinGecko or enrichment failed", ErrorText)
  ELSE InternalError("Failed to discover token", e)

Erc20PostValidate(r) ==
  /\ pc[r] = "handler"
  /\ req[r].route = "erc20_post"
  /\ CASE req[r].input \in NotJson ->
            \E e \in JsonSyntaxErrors(req[r].input) :
              Move(r, "responded", CatchErc20Post(e), <<>>, Caught(r, e))
       [] req[r].input = "invalid" ->
            Respond(r, ValidationError("Invalid request data"), <<Parsed(r)>>)
       [] OTHER -> Goto(r, "delegate", <<Parsed(r)>>)
  /\ UNCHANGED envVars

Erc20PostDiscover(r) ==
  /\ pc[r] = "delegate"
  /\ req[r].route = "erc20_post"
  /\ LET c == <<Call("discover", local[r].user)>> IN
       \/ Respond(r, createSuccessResponse(200, [kind |-> "token"]), c)
       \/ \E e \in Throws("discover") : Move(r, "responded", CatchErc20Post(e), Threw(c), Caught(r, e))
  /\ UNCHANGED envVars

CatchErc20Search(e) ==
  IF e.isError /\ Includes(e, "at least one")
  THEN createErrorResponse("VALIDATION_ERROR",
                           "At least one search parameter (symbol or name) required", ErrorText)
  ELSE InternalError("Failed to search tokens", e)

\* parse and validate the query params
Erc20SearchValidate(r) ==
  /\ pc[r] = "handler"
  /\ req[r].route = "erc20_search"
  /\ LET validation == SearchErc20TokensQuerySchema(SearchQueryParams(req[r].search)) IN
       IF ~validation.success
       THEN Respond(r, ValidationError("Invalid query parameters"), <<Validated(FALSE)>>)
       ELSE Goto(r, "delegate", <<Validated(TRUE)>>)
  /\ UNCHANGED envVars

Erc20SearchTokens(r) ==
  /\ pc[r] = "delegate"
  /\ req[r].route = "erc20_search"
  /\ LET c == <<Call("searchTokens", local[r].user)>> IN
       \/ Respond(r, createSuccessResponse(200, [kind |-> "tokens"]), c)
       \/ \E e \in Throws("searchTokens") : Move(r, "responded", CatchErc20Search(e), Threw(c), Caught(r, e))
  /\ UNCHANGED envVars

-----------------------------------------------------------------------------
(* GET /api/v1/pools/uniswapv3/:address *)

\* the catch around poolService.discover; a value it rethrows reaches the
\* outer catch, which answers with a fixed message and no details
CatchPoolDiscover(e) ==
  IF e.isError /\ (Includes(e, "Invalid pool address") \/ Includes(e, "does not implement"))
  THEN createErrorResponse("NOT_FOUND", "Pool not found at address on chain", NoDetails)
  ELSE IF e.isError /\ (Includes(e, "not configured") \/ Includes(e, "not supported"))
  THEN createErrorResponse("BAD_REQUEST", ErrorText, NoDetails)
  ELSE IF e.isError /\ Includes(e, "Failed to read")
  THEN createErrorResponse("BAD_GATEWAY", "Failed to read pool data from blockchain", ErrorText)
  ELSE createErrorResponse("INTERNAL_SERVER_ERROR", "An unexpected error occurred", NoDetails)

PoolGetValidate(r) ==
  /\ pc[r] = "handler"
  /\ req[r].route = "pool_get"
  /\ CASE req[r].input = "invalid" ->
            Respond(r, ValidationError("Invalid pool address format"), <<Parsed(r)>>)
       [] req[r].input = "invalidQuery" ->
            Respond(r, ValidationError("Invalid query parameters"),
                    <<Call("safeParse", "ok"), Parsed(r)>>)
       [] OTHER -> Goto(r, "delegate", <<Call("safeParse", "ok"), Parsed(r)>>)
  /\ UNCHANGED envVars

\* values of JavaScript as far as the route tells them apart
Undefined == "undefined"
Truthy(v) == v \notin {Undefined, "false"}

\* GetUniswapV3PoolQuerySchema.safeParse(searchParams).data of a query that
\* validates: chainId, and the flags metrics and fees, each true exactly when
\* the query gives it as 'true'; keys the schema does not declare are stripped
GetUniswapV3PoolQuerySchema(flags) ==
  [chainId |-> "chainId",
   metrics |-> IF "metrics" \in flags THEN "true" ELSE "false",
   fees |-> IF "fees" \in flags THEN "true" ELSE "false"]

\* const { name } = data
Field(data, name) == IF name \in DOMAIN data THEN data[name] ELSE Undefined

\* responseData and meta.hasMetrics: ...(metrics && { metrics }), !!metrics
PoolData(metrics) ==
  [kind |-> "pool", metrics |-> metrics, hasMetrics |-> Truthy(metrics)]

\* step 3, and the test of step 4: const { chainId, enrichMetrics } =
\* queryResult.data; poolService.discover; if (enrichMetrics)
PoolGetDiscover(r) ==
  /\ pc[r] = "delegate"
  /\ req[r].route = "pool_get"
  /\ LET enrichMetrics == Field(GetUniswapV3PoolQuerySchema(req[r].flags), "enrichMetrics")
         c == <<Call("poolDiscover", local[r].user)>> IN
       \/ IF Truthy(enrichMetrics)
          THEN Goto(r, "metrics", c)
          ELSE Respond(r, createSuccessResponse(200, PoolData(Undefined)), c)
       \/ \E e \in Throws("poolDiscover") : Move(r, "responded", CatchPoolDiscover(e), Threw(c), Caught(r, e))
  /\ UNCHANGED envVars

\* step 4: subgraphClient.getPoolMetrics, best effort.  No request reaches
\* this step: enrichMetrics is not a key of the parsed query.
PoolGetMetrics(r) ==
  /\ pc[r] = "metrics"
  /\ LET c == <<Call("getPoolMetrics", local[r].user)>> IN
       \/ Respond(r, createSuccessResponse(200, PoolData("metrics")), c)
       \/ \E e \in Throws("getPoolMetrics") :
            Move(r, "responded", createSuccessResponse(200, PoolData(Undefined)), Threw(c), Caught(r, e))
  /\ UNCHANGED envVars

-----------------------------------------------------------------------------
(* POST /api/v1/auth/link-wallet *)

LinkWalletError(e) == InternalError("Failed to link wallet", e)

\* steps 1 and 2: request.json(), LinkWalletRequestSchema, new SiweMessage
LinkWalletValidate(r) ==
  /\ pc[r] = "handler"
  /\ req[r].route = "link_wallet"
  /\ CASE req[r].input \in NotJson ->
            \E e \in JsonSyntaxErrors(req[r].input) :
              Move(r, "responded", LinkWalletError(e), <<>>, Caught(r, e))
       [] req[r].input = "invalid" ->
            Respond(r, ValidationError("Invalid request data"), <<Parsed(r)>>)
       [] req[r].message = "malformed" ->
            Respond(r, createErrorResponse("INVALID_SIWE_MESSAGE",
                                           "Failed to parse SIWE message", ErrorText),
                    <<Parsed(r), Call("SiweMessage", "malformed")>>)
       [] OTHER -> Goto(r, "verify", <<Parsed(r), Call("SiweMessage", "siwe")>>)
  /\ UNCHANGED envVars

\* step 3: siweMessage.verify({signature}); on a bad signature the library
\* resolves with success false or rejects
LinkWalletVerify(r) ==
  /\ pc[r] = "verify"
  /\ LET c == <<Call("verify", req[r].signature)>> IN
       \/ /\ req[r].signature = "good"
          /\ Goto(r, "nonce", c)
       \/ /\ req[r].signature = "bad"
          /\ Respond(r, createErrorResponse("INVALID_SIGNATURE", "Invalid SIWE signature",
                                            NoDetails), c)
       \/ /\ req[r].signature = "bad"
          /\ Move(r, "responded", LinkWalletError(Thrown(FALSE, {})), Threw(c),
                  Caught(r, Thrown(FALSE, {})))
  /\ UNCHANGED envVars

\* step 4: nonceService.validateNonce(siweMessage.nonce)
LinkWalletValidateNonce(r) ==
  /\ pc[r] = "nonce"
  /\ LET c == <<Call("validateNonce", "-")>> IN
       \/ /\ req[r].nonce \in nonces
          /\ Goto(r, "consume", c)
       \/ /\ req[r].nonce \notin nonces
          /\ Respond(r, createErrorResponse("NONCE_INVALID", "Invalid or expired nonce",
                                            NoDetails), c)
       \/ \E e \in Throws("validateNonce") : Move(r, "responded", LinkWalletError(e), Threw(c), Caught(r, e))
  /\ UNCHANGED envVars

\* step 5: nonceService.consumeNonce(siweMessage.nonce)
LinkWalletConsumeNonce(r) ==
  /\ pc[r] = "consume"
  /\ LET c == <<Call("consumeNonce", "-")>> IN
       \/ /\ nonces' = nonces \ {req[r].nonce}
          /\ Goto(r, "link", c)
       \/ /\ \E e \in Throws("consumeNonce") : Move(r, "responded", LinkWalletError(e), Threw(c), Caught(r, e))
          /\ UNCHANGED nonces
  /\ UNCHANGED <<keys, issued, wallets>>

\* the catch around userService.linkWallet, and the outer catch it rethrows to
CatchLinkWallet(e) ==
  IF e.isError /\ Includes(e, "already registered")
  THEN createErrorResponse("WALLET_ALREADY_REGISTERED",
                           "This wallet is already registered to a user account",
                           RequestContext)
  ELSE LinkWalletError(e)

\* the nonce is put back into the cache when the wallet could not be linked
LinkWalletLink_ReleasesNonce(r) ==
  /\ pc[r] = "link"
  /\ LET u == local[r].user
         a == req[r].address
         c == <<Call("linkWallet", u)>> IN
       \/ /\ wallets[a] = NoUser
          /\ wallets' = [wallets EXCEPT ![a] = u]
          /\ Respond(r, createSuccessResponse(200, [kind |-> "wallet", address |-> a]), c)
          /\ UNCHANGED nonces
       \/ /\ wallets[a] # NoUser
          /\ Move(r, "responded", CatchLinkWallet(Thrown(TRUE, {"already registered"})), Threw(c),
                  Caught(r, Thrown(TRUE, {"already registered"})))
          /\ nonces' = nonces \cup {req[r].nonce}
          /\ UNCHANGED wallets
       \/ /\ \E e \in Throws("linkWallet") : Move(r, "responded", CatchLinkWallet(e), Threw(c), Caught(r, e))
          /\ nonces' = nonces \cup {req[r].nonce}
          /\ UNCHANGED wallets
  /\ UNCHANGED <<keys, issued>>

\* step 7: userService.linkWallet(user.id, address, chainId)
LinkWalletLink(r) ==
  /\ pc[r] = "link"
  /\ LET u == local[r].user
         a == req[r].address
         c == <<Call("linkWallet", u)>> IN
       \/ /\ wallets[a] = NoUser
          /\ wallets' = [wallets EXCEPT ![a] = u]
          /\ Respond(r, createSuccessResponse(200, [kind |-> "wallet", address |-> a]), c)
       \/ /\ wallets[a] # NoUser
          /\ Move(r, "responded", CatchLinkWallet(Thrown(TRUE, {"already registered"})), Threw(c),
                  Caught(r, Thrown(TRUE, {"already registered"})))
          /\ UNCHANGED wallets
       \/ /\ \E e \in Throws("linkWallet") : Move(r, "responded", CatchLinkWallet(e), Threw(c), Caught(r, e))
          /\ UNCHANGED wallets
  /\ UNCHANGED <<keys, nonces, issued>>

-----------------------------------------------------------------------------
(* Specifications *)

\* requests are served one at a time, in the first slot
ReceiveAny(r) ==
  /\ r = 1
  /\ pc[r] = "idle"
  /\ \E rt \in Routes : \E rq \in RequestsTo(rt) : Receive(r, rq)

WithAuthStep(r) ==
  \/ WithAuthValidateApiKey(r)
  \/ UpdateLastUsedSettle(r)
  \/ WithAuthFindUser(r)
  \/ WithAuthGetWallets(r)
  \/ WithAuthSession(r)

LinkWalletStep(r) ==
  \/ LinkWalletValidate(r)
  \/ LinkWalletVerify(r)
  \/ LinkWalletValidateNonce(r)
  \/ LinkWalletConsumeNonce(r)
  \/ LinkWalletLink(r)

RouteStep(r) ==
  \/ Health(r)
  \/ NonceGet(r)
  \/ ApiKeysGetAuth(r)
  \/ ApiKeysPostAuth(r)
  \/ ApiKeysDeleteAuth(r)
  \/ ApiKeysGet(r)
  \/ ApiKeysPostValidate(r)
  \/ ApiKeysPostCreate(r)
  \/ ApiKeysDelete(r)
  \/ PosListValidate(r)
  \/ PosListFindMany(r)
  \/ PosGetValidate(r)
  \/ PosGetFind(r)
  \/ PosGetRefresh(r)
  \/ Erc20PostValidate(r)
  \/ Erc20PostDiscover(r)
  \/ Erc20SearchValidate(r)
  \/ Erc20SearchTokens(r)
  \/ PoolGetValidate(r)
  \/ PoolGetDiscover(r)

Next ==
  \/ \E r \in Reqs :
       ReceiveAny(r) \/ WithAuthStep(r) \/ RouteStep(r) \/ LinkWalletStep(r) \/ Finish(r)
  \/ \E n \in Nonces : NonceExpire(n)

Spec == Init /\ [][Next]_vars

\* the link-wallet requests that carry a session, a well-formed message and
\* a good signature
RaceRequests ==
  {rq \in RequestsTo("link_wallet") :
     /\ rq.hdr = NoHeader
     /\ rq.sess \in Users
     /\ rq.input = "ok" /\ rq.message = "siwe" /\ rq.signature = "good"}

\* link-wallet requests arrive while others are being served, and stay in
\* their slot when answered
ReceiveLinkWallet(r) == pc[r] = "idle" /\ \E rq \in RaceRequests : Receive(r, rq)

\* the nonce cache after GET /api/v1/auth/nonce has been answered once
InitRace ==
  /\ req = [r \in Reqs |-> NoRequest]
  /\ pc = [r \in Reqs |-> "idle"]
  /\ local = [r \in Reqs |-> NoLocal]
  /\ trace = [r \in Reqs |-> <<>>]
  /\ resp = [r \in Reqs |-> NoResponse]
  /\ keys = [k \in KeyTokens |->
               CASE k = "mc_u1" -> "u1" [] k = "mc_ghost" -> GhostUser [] OTHER -> NoUser]
  /\ nonces = {1}
  /\ issued = 1
  /\ wallets = [a \in Addrs |-> NoUser]

NextRace ==
  \/ \E r \in Reqs : ReceiveLinkWallet(r) \/ WithAuthSession(r) \/ LinkWalletStep(r)
  \/ \E n \in Nonces : NonceExpire(n)

SpecRace == InitRace /\ [][NextRace]_vars

-----------------------------------------------------------------------------
(* Schema of the PATCH body: the events appended to the ledger of a        *)
(* position.  An address is kept as one word; the fields whose checks do   *)
(* not depend on the type of the event (timestamp, blockNumber,            *)
(* transactionIndex, logIndex, transactionHash, amount0, amount1) are kept *)
(* as one field, rest, that passes its checks or does not.                 *)

MinEvents == 1
MaxEvents == 100

\* eventTypeSchema
eventTypeSchema == {"INCREASE_LIQUIDITY", "DECREASE_LIQUIDITY", "COLLECT"}

\* bigIntStringRegex: /^[0-9]+$/
bigIntStringRegex(cs) == cs # <<>> /\ \A j \in DOMAIN cs : cs[j] \in Digits

\* ethereumAddressRegex, on the words of the model
ethereumAddressRegex(cs) == cs = <<"0x742d35Cc6634C0532925a3b844Bc9e7595f0bEb0">>

\* !value of an optional string: it is undefined or empty
Falsy(v) == ~v.present \/ v.chars = <<>>

\* the object of eventSchema: the paths of the fields that fail their own checks
EventFieldIssues(e) ==
  (IF e.eventType \in eventTypeSchema THEN {} ELSE {"eventType"})
  \cup (IF e.rest = "ok" THEN {} ELSE {"rest"})
  \cup (IF e.liquidity.present /\ ~bigIntStringRegex(e.liquidity.chars)
        THEN {"liquidity"} ELSE {})
  \cup (IF e.recipient.present /\ ~ethereumAddressRegex(e.recipient.chars)
        THEN {"recipient"} ELSE {})

\* the refinement without the rule that forbids recipient
EventRefineIssues_RecipientAllowed(e) ==
  (IF e.eventType \in {"INCREASE_LIQUIDITY", "DECREASE_LIQUIDITY"} /\ Falsy(e.liquidity)
   THEN {"liquidity"} ELSE {})
  \cup (IF e.eventType = "COLLECT" /\ Falsy(e.recipient) THEN {"recipient"} ELSE {})

\* superRefine of eventSchema: the paths of the issues it adds
EventRefineIssues(e) ==
  (IF e.eventType \in {"INCREASE_LIQUIDITY", "DECREASE_LIQUIDITY"} /\ Falsy(e.liquidity)
   THEN {"liquidity"} ELSE {})
  \cup (IF e.eventType \in {"INCREASE_LIQUIDITY", "DECREASE_LIQUIDITY"} /\ ~Falsy(e.recipient)
        THEN {"recipient"} ELSE {})
  \cup (IF e.eventType = "COLLECT" /\ Falsy(e.recipient) THEN {"recipient"} ELSE {})

\* eventSchema.safeParse(e): the refinement runs on an object whose fields passed
eventSchema(e) ==
  LET issues == IF EventFieldIssues(e) # {} THEN EventFieldIssues(e) ELSE EventRefineIssues(e) IN
    [success |-> issues = {}, issues |-> issues]

\* UpdateUniswapV3PositionRequestSchema.safeParse(body)
UpdateUniswapV3PositionRequestSchema(body) ==
  [success |-> /\ Len(body.events) >= MinEvents
               /\ Len(body.events) <= MaxEvents
               /\ \A i \in DOMAIN body.events : eventSchema(body.events[i]).success]

\* the events a client sends in the model
LiquidityValues == {Absent, Str(<<"1", "0">>), Str(<<"1", "e", "5">>), Str(<<>>)}
RecipientValues ==
  {Absent, Str(<<"0x742d35Cc6634C0532925a3b844Bc9e7595f0bEb0">>), Str(<<"0x12">>), Str(<<>>)}
Events ==
  [eventType : eventTypeSchema \cup {"MINT"}, liquidity : LiquidityValues,
   recipient : RecipientValues, rest : {"ok", "bad"}]
AnIncrease ==
  [eventType |-> "INCREASE_LIQUIDITY", liquidity |-> Str(<<"1", "0">>),
   recipient |-> Absent, rest |-> "ok"]

\* the arrays of n events that are increases but for the event at place k
EventsArray(n, k, e) == [i \in 1..n |-> IF i = k THEN e ELSE AnIncrease]
UpdateBodies ==
  {[events |-> EventsArray(n, k, e)] :
     n \in {0, 1, 2, MaxEvents, MaxEvents + 1}, k \in {1, 2}, e \in Events}

\* a body to validate, in the first slot: the schema is applied to it in one step
UpdateRequest(body) ==
  [Request("pos_patch", NoHeader, "none", "-") EXCEPT !.body = body]

InitSchemas ==
  /\ \E b \in UpdateBodies :
       req = [r \in Reqs |-> IF r = 1 THEN UpdateRequest(b) ELSE NoRequest]
  /\ pc = [r \in Reqs |-> IF r = 1 THEN "body" ELSE "idle"]
  /\ local = [r \in Reqs |-> NoLocal]
  /\ trace = [r \in Reqs |-> <<>>]
  /\ resp = [r \in Reqs |-> NoResponse]
  /\ keys = [k \in KeyTokens |->
               CASE k = "mc_u1" -> "u1" [] k = "mc_ghost" -> GhostUser [] OTHER -> NoUser]
  /\ nonces = {}
  /\ issued = 0
  /\ wallets = [a \in Addrs |-> NoUser]

\* UpdateUniswapV3PositionRequestSchema.safeParse(body) on the body of r
UpdateValidate(r) ==
  /\ pc[r] = "body"
  /\ req[r].route = "pos_patch"
  /\ Goto(r, "validated", <<Validated(UpdateUniswapV3PositionRequestSchema(req[r].body).success)>>)
  /\ UNCHANGED envVars

NextSchemas == \E r \in Reqs : UpdateValidate(r)

SpecSchemas == InitSchemas /\ [][NextSchemas]_vars

-----------------------------------------------------------------------------
(* Serializers of the pool.  A value of JavaScript carries its type.  A    *)
(* bigint is kept in binary, as its limbs in base 2^16, least significant  *)
(* first, so that its decimal string is something to compute; a Date is    *)
(* the milliseconds since the start of its day.                            *)

\* a wide integer of the domain has 256 bits
LimbBase == 2 ^ 16
NumLimbs == 256 \div 16

BigInt(limbs) == [type |-> "bigint", limbs |-> limbs]
Date(ms) == [type |-> "Date", ms |-> ms]
JsString(cs) == [type |-> "string", chars |-> cs]
JsNumber(n) == [type |-> "number", val |-> n]
Object(fields) == [type |-> "object", fields |-> fields]

\* (a value computed once and used several times is bound as the one element
\* of a set: CHOOSE y \in {F(v) : v \in {e}} : TRUE is F(e))

DigitChar(d) == <<"0", "1", "2", "3", "4", "5", "6", "7", "8", "9">>[d + 1]

\* one step of the division of a wide integer by ten, from the most
\* significant limb down: the quotient so far and the remainder
RECURSIVE DivTen(_, _)
DivTen(limbs, i) ==
  IF i > Len(limbs) THEN [q |-> <<>>, r |-> 0]
  ELSE CHOOSE y \in {[q |-> <<(hi.r * LimbBase + limbs[i]) \div 10>> \o hi.q,
                       r |-> (hi.r * LimbBase + limbs[i]) % 10] :
                        hi \in {DivTen(limbs, i + 1)}} : TRUE

IsZero(limbs) == \A i \in DOMAIN limbs : limbs[i] = 0

\* a limb has at most five decimal digits
MaxDigits == 5 * NumLimbs

\* the n least significant decimal digits of a wide integer, and the
\* quotient that is left: the digits of the lower half, then of the upper
RECURSIVE LowDigits(_, _)
LowDigits(limbs, n) ==
  IF n = 1
  THEN CHOOSE y \in {[q |-> qr.q, ds |-> <<DigitChar(qr.r)>>] :
                        qr \in {DivTen(limbs, 1)}} : TRUE
  ELSE CHOOSE y \in {CHOOSE z \in {[q |-> hi.q, ds |-> hi.ds \o lo.ds] :
                                     hi \in {LowDigits(lo.q, n - n \div 2)}} : TRUE :
                        lo \in {LowDigits(limbs, n \div 2)}} : TRUE

\* the numeral without its leading zeros, "0" for zero
StripZeros(ds) ==
  LET k == CHOOSE k \in 0..(Len(ds) - 1) :
             /\ \A j \in 1..k : ds[j] = "0"
             /\ k = Len(ds) - 1 \/ ds[k + 1] # "0" IN
    SubSeq(ds, k + 1, Len(ds))

\* BigInt.prototype.toString(): the decimal digits, "0" for zero
BigIntToString(b) ==
  JsString(CHOOSE y \in {StripZeros(ds) : ds \in {LowDigits(b.limbs, MaxDigits).ds}} : TRUE)

TwoDigits(n) == <<DigitChar(n \div 10), DigitChar(n % 10)>>
ThreeDigits(n) == <<DigitChar(n \div 100)>> \o TwoDigits(n % 100)

\* Date.prototype.toISOString(), for the moments of 1 January 1970
toISOString(d) ==
  JsString(<<"1970-01-01T">> \o TwoDigits(d.ms \div 3600000) \o <<":">>
           \o TwoDigits((d.ms \div 60000) % 60) \o <<":">>
           \o TwoDigits((d.ms \div 1000) % 60) \o <<".">>
           \o ThreeDigits(d.ms % 1000) \o <<"Z">>)

\* serializeErc20Token(token)
serializeErc20Token(token) ==
  Object([id |-> token.fields.id,
          tokenType |-> token.fields.tokenType,
          name |-> token.fields.name,
          symbol |-> token.fields.symbol,
          decimals |-> token.fields.decimals,
          logoUrl |-> token.fields.logoUrl,
          coingeckoId |-> token.fields.coingeckoId,
          marketCap |-> token.fields.marketCap,
          config |-> token.fields.config,
          createdAt |-> toISOString(token.fields.createdAt),
          updatedAt |-> toISOString(token.fields.updatedAt)])

\* the state with liquidity passed on as it is
serializeUniswapV3PoolState_LiquidityKept(state) ==
  Object([sqrtPriceX96 |-> BigIntToString(state.fields.sqrtPriceX96),
          liquidity |-> state.fields.liquidity,
          currentTick |-> state.fields.currentTick,
          feeGrowthGlobal0 |-> BigIntToString(state.fields.feeGrowthGlobal0),
          feeGrowthGlobal1 |-> BigIntToString(state.fields.feeGrowthGlobal1)])

\* serializeUniswapV3PoolState(state)
serializeUniswapV3PoolState(state) ==
  Object([sqrtPriceX96 |-> BigIntToString(state.fields.sqrtPriceX96),
          liquidity |-> BigIntToString(state.fields.liquidity),
          currentTick |-> state.fields.currentTick,
          feeGrowthGlobal0 |-> BigIntToString(state.fields.feeGrowthGlobal0),
          feeGrowthGlobal1 |-> BigIntToString(state.fields.feeGrowthGlobal1)])

\* serializeUniswapV3Pool(pool)
serializeUniswapV3Pool(pool) ==
  Object([id |-> pool.fields.id,
          protocol |-> pool.fields.protocol,
          poolType |-> pool.fields.poolType,
          token0 |-> serializeErc20Token(pool.fields.token0),
          token1 |-> serializeErc20Token(pool.fields.token1),
          feeBps |-> pool.fields.feeBps,
          config |-> pool.fields.config,
          state |-> serializeUniswapV3PoolState(pool.fields.state),
          createdAt |-> toISOString(pool.fields.createdAt),
          updatedAt |-> toISOString(pool.fields.updatedAt)])

\* the wide integers of the model: 0, 1, 10, 2^53 + 1, 10^21, 2^128, 10^77
\* and 2^256 - 1
WideOf(low) == BigInt(low \o [i \in 1..(NumLimbs - Len(low)) |-> 0])
WideValues ==
  {WideOf(<<>>), WideOf(<<1>>), WideOf(<<10>>), WideOf(<<1, 0, 0, 32>>),
   WideOf(<<0, 56992, 44485, 13769, 54>>), WideOf(<<0, 0, 0, 0, 0, 0, 0, 0, 1>>),
   WideOf(<<0, 0, 0, 0, 40960, 28626, 31598, 43672, 40638, 5107, 3767, 18927, 55570,
            45050, 65158, 56597>>),
   BigInt([i \in 1..NumLimbs |-> LimbBase - 1])}
Dates == {Date(0), Date(43200123), Date(86399999)}

\* the tokens, pool states and pools the services layer hands to the serializers
Erc20Tokens ==
  {Object([id |-> JsString(<<"token_", s>>), tokenType |-> JsString(<<"erc20">>),
           name |-> JsString(<<s>>), symbol |-> JsString(<<s>>), decimals |-> JsNumber(18),
           logoUrl |-> JsString(<<"https://logo">>), coingeckoId |-> JsString(<<s>>),
           marketCap |-> JsNumber(32456), 
           config |-> Object([address |-> JsString(<<"0xA0b8">>), chainId |-> JsNumber(1)]),
           createdAt |-> c, updatedAt |-> Date(86399999)]) :
     s \in {"USDC", "WETH"}, c \in {Date(0), Date(43200123)}}
UniswapV3PoolStates ==
  {Object([sqrtPriceX96 |-> p, liquidity |-> l, currentTick |-> JsNumber(t),
           feeGrowthGlobal0 |-> g0, feeGrowthGlobal1 |-> g1]) :
     p \in WideValues, l \in WideValues, t \in {0 - 887272, 201234},
     g0 \in {WideOf(<<>>), BigInt([i \in 1..NumLimbs |-> LimbBase - 1])},
     g1 \in {WideOf(<<1, 0, 0, 32>>)}}
UniswapV3Pools ==
  {Object([id |-> JsString(<<"pool_1">>), protocol |-> JsString(<<"uniswapv3">>),
           poolType |-> JsString(<<"CL_TICKS">>), token0 |-> t0, token1 |-> t1,
           feeBps |-> JsNumber(500),
           config |-> Object([chainId |-> JsNumber(1), address |-> JsString(<<"0x8ad5">>),
                              feeBps |-> JsNumber(500), tickSpacing |-> JsNumber(10)]),
           state |-> s, createdAt |-> c, updatedAt |-> Date(43200123)]) :
     t0 \in {t \in Erc20Tokens : t.fields.symbol = JsString(<<"USDC">>)},
     t1 \in {t \in Erc20Tokens : t.fields.symbol = JsString(<<"WETH">>)
                                 /\ t.fields.createdAt = Date(0)},
     s \in {s \in UniswapV3PoolStates : s.fields.currentTick = JsNumber(201234)},
     c \in Dates}

\* a value to serialize, in the first slot
SerializeRequest(rt, v) == [Request(rt, NoHeader, "none", "-") EXCEPT !.body = v]

InitSerializers ==
  /\ \E rq \in {SerializeRequest("serialize_pool", p) : p \in UniswapV3Pools}
               \cup {SerializeRequest("serialize_state", s) : s \in UniswapV3PoolStates} :
       req = [r \in Reqs |-> IF r = 1 THEN rq ELSE NoRequest]
  /\ pc = [r \in Reqs |-> IF r = 1 THEN "body" ELSE "idle"]
  /\ local = [r \in Reqs |-> NoLocal]
  /\ trace = [r \in Reqs |-> <<>>]
  /\ resp = [r \in Reqs |-> NoResponse]
  /\ keys = [k \in KeyTokens |->
               CASE k = "mc_u1" -> "u1" [] k = "mc_ghost" -> GhostUser [] OTHER -> NoUser]
  /\ nonces = {}
  /\ issued = 0
  /\ wallets = [a \in Addrs |-> NoUser]

\* serializeUniswapV3Pool(pool), the result being the data of the response
SerializePool(r) ==
  /\ pc[r] = "body"
  /\ req[r].route = "serialize_pool"
  /\ Move(r, "serialized", createSuccessResponse(200, serializeUniswapV3Pool(req[r].body)),
          <<>>, local[r])
  /\ UNCHANGED envVars

\* serializeUniswapV3PoolState(state)
SerializePoolState(r) ==
  /\ pc[r] = "body"
  /\ req[r].route = "serialize_state"
  /\ Move(r, "serialized", createSuccessResponse(200, serializeUniswapV3PoolState(req[r].body)),
          <<>>, local[r])
  /\ UNCHANGED envVars

NextSerializers == \E r \in Reqs : SerializePool(r) \/ SerializePoolState(r)

SpecSerializers == InitSerializers /\ [][NextSerializers]_vars

-----------------------------------------------------------------------------
(* Path parameters of /api/v1/positions/uniswapv3/:chainId/:nftId: the     *)
(* schemas of GET, PUT, PATCH and DELETE, applied to the same pair.        *)

\* /^[0-9]+$/
numericStringRegex(cs) == cs # <<>> /\ \A j \in DOMAIN cs : cs[j] \in Digits

\* z.string().transform: parseInt(val, 10), an issue when isNaN(parsed) || parsed <= 0
ParsedPositive(cs) ==
  LET parsed == parseInt(cs) IN
    [success |-> parsed.kind = "number" /\ parsed.val > 0, value |-> parsed]

\* z.string().regex(/^[0-9]+$/).transform(parseInt).refine(val > 0)
NumericPositive(cs) ==
  LET parsed == parseInt(cs) IN
    [success |-> numericStringRegex(cs) /\ parsed.val > 0, value |-> parsed]

\* z.string().min(1)
NonEmptyString(cs) == [success |-> Len(cs) >= 1, value |-> cs]

\* z.object({chainId, nftId}).safeParse(params)
ParamsObject(chainId, nftId) ==
  [success |-> chainId.success /\ nftId.success,
   data |-> [chainId |-> chainId.value, nftId |-> nftId.value]]

GetUniswapV3PositionParamsSchema(p) ==
  ParamsObject(ParsedPositive(p.chainId), NonEmptyString(p.nftId))
CreateUniswapV3PositionParamsSchema(p) ==
  ParamsObject(NumericPositive(p.chainId), NumericPositive(p.nftId))
UpdateUniswapV3PositionParamsSchema(p) ==
  ParamsObject(NumericPositive(p.chainId), NumericPositive(p.nftId))
DeleteUniswapV3PositionParamsSchema(p) ==
  ParamsObject(ParsedPositive(p.chainId), ParsedPositive(p.nftId))

\* the schema of every method
ParamsSchemas == {"GET", "PUT", "PATCH", "DELETE"}
ParamsSchema(method, p) ==
  CASE method = "GET" -> GetUniswapV3PositionParamsSchema(p)
    [] method = "PUT" -> CreateUniswapV3PositionParamsSchema(p)
    [] method = "PATCH" -> UpdateUniswapV3PositionParamsSchema(p)
    [] OTHER -> DeleteUniswapV3PositionParamsSchema(p)

\* the segments of the path a client sends in the model
PathSegments ==
  {<<"1">>, <<"1", "2">>, <<"0", "0", "7">>, <<"1", "2", "a">>, <<"1", ".", "5">>,
   <<"a", "b", "c">>, <<"0">>, <<"-", "1">>, <<"+", "1">>, <<" ", "1">>}
PathParams == [chainId : PathSegments, nftId : PathSegments]

\* a pair of path parameters, in the first slot
ParamsRequest(p) == [Request("pos_params", NoHeader, "none", "-") EXCEPT !.body = p]

InitParams ==
  /\ \E p \in PathParams :
       req = [r \in Reqs |-> IF r = 1 THEN ParamsRequest(p) ELSE NoRequest]
  /\ pc = [r \in Reqs |-> IF r = 1 THEN "body" ELSE "idle"]
  /\ local = [r \in Reqs |-> NoLocal]
  /\ trace = [r \in Reqs |-> <<>>]
  /\ resp = [r \in Reqs |-> NoResponse]
  /\ keys = [k \in KeyTokens |->
               CASE k = "mc_u1" -> "u1" [] k = "mc_ghost" -> GhostUser [] OTHER -> NoUser]
  /\ nonces = {}
  /\ issued = 0
  /\ wallets = [a \in Addrs |-> NoUser]

\* the schema of one method is applied to the pair of r; its result is kept
\* with the calls of r
ValidateParams(r, method) ==
  /\ pc[r] = "body"
  /\ req[r].route = "pos_params"
  /\ \A i \in DOMAIN trace[r] : trace[r][i].op # method
  /\ LET validation == ParamsSchema(method, req[r].body) IN
       Goto(r, "body", <<[op |-> method, arg |-> validation,
                          out |-> IF validation.success THEN "ok" ELSE "fail"]>>)
  /\ UNCHANGED envVars

NextParams == \E r \in Reqs : \E method \in ParamsSchemas : ValidateParams(r, method)

SpecParams == InitParams /\ [][NextParams]_vars

-----------------------------------------------------------------------------
(* Observations on a request *)

Called(r, op) == \E i \in DOMAIN trace[r] : trace[r][i].op = op
CalledOk(r, op) == \E i \in DOMAIN trace[r] : trace[r][i].op = op /\ trace[r][i].out = "ok"
CountCalls(r, op) == Cardinality({i \in DOMAIN trace[r] : trace[r][i].op = op})
Delegated(r) == \E i \in DOMAIN trace[r] : trace[r][i].op \in DelegateOps
InFlight(r) == pc[r] # "idle"
Responded(r) == pc[r] = "responded"

\* the request carries an API key that validates to an existing user
CarriesValidKey(r) == HasApiKey(req[r].hdr) /\ KeyOwner(BearerToken(req[r].hdr)) \in Users
\* the session provider answers, and finds no session with a user id
NoSession(r) == req[r].sess = "none"

IsUnauthorized(rs) ==
  rs.sent /\ rs.status = 401 /\ ~rs.success /\ rs.code = "UNAUTHORIZED"

-----------------------------------------------------------------------------
(* Claims *)

\* C1: a request to a route wrapped by withAuth that carries neither an API
\* key validating to an existing user nor a session with a user id is answered
\* 401 UNAUTHORIZED with an error envelope; its handler callback is never
\* invoked and no service operation of the route is called.
C1_NoCredentialsIs401 ==
  \A r \in Reqs :
    (InFlight(r) /\ req[r].route \in WithAuthRoutes /\ ~CarriesValidKey(r) /\ NoSession(r))
      => /\ ~Called(r, "handler")
         /\ ~Delegated(r)
         /\ pc[r] \in {"start", "findUser", "session", "responded"}
         /\ Responded(r) => IsUnauthorized(resp[r])

\* a request with the key of a user that no longer exists, and no session, has been answered 401
C1_Witness ==
  \E r \in Reqs :
    /\ req[r].route \in WithAuthRoutes
    /\ req[r].hdr = "Bearer mc_ghost" /\ NoSession(r)
    /\ Responded(r) /\ IsUnauthorized(resp[r])
    /\ Called(r, "findUserById") /\ Called(r, "auth")

\* C2: on GET and POST /api/v1/user/api-keys and DELETE /api/v1/user/api-keys/:id
\* a request whose only credential is a valid API key is answered 401
\* UNAUTHORIZED, and none of getUserApiKeys, createApiKey, revokeApiKey is invoked.
C2_ApiKeyCannotManageKeys ==
  \A r \in Reqs :
    (InFlight(r) /\ req[r].route \in SessionOnlyRoutes /\ CarriesValidKey(r) /\ NoSession(r))
      => /\ ~Called(r, "getUserApiKeys")
         /\ ~Called(r, "createApiKey")
         /\ ~Called(r, "revokeApiKey")
         /\ pc[r] \in {"start", "responded"}
         /\ Responded(r) => IsUnauthorized(resp[r])

\* a POST /api/v1/user/api-keys with a valid key and no session has been answered 401
C2_Witness ==
  \E r \in Reqs :
    /\ req[r].route = "apikeys_post"
    /\ CarriesValidKey(r) /\ NoSession(r) /\ req[r].input = "ok"
    /\ Responded(r) /\ IsUnauthorized(resp[r])

\* C3: POST /api/v1/auth/link-wallet is session-only: a request authenticated
\* only by a valid API key, with no session, never reaches
\* userService.linkWallet and binds no wallet.
C3_LinkWalletSessionOnly ==
  \A r \in Reqs :
    (InFlight(r) /\ req[r].route = "link_wallet" /\ CarriesValidKey(r) /\ NoSession(r))
      => /\ ~Called(r, "linkWallet")
         /\ ~(Responded(r) /\ resp[r].success)

\* C4: a SIWE nonce is single use in link-wallet: of the concurrent requests
\* that present the same valid nonce with valid signatures, at most one gets
\* past the nonce check and calls userService.linkWallet.
C4_NonceSingleUse ==
  \A n \in Nonces :
    Cardinality({r \in Reqs : /\ req[r].route = "link_wallet"
                              /\ req[r].nonce = n
                              /\ Called(r, "linkWallet")}) <= 1

\* the user withAuth authenticated: the owner of the key when the key, its
\* user and the wallets of the user were found, the user of the session otherwise
AuthenticatedUser(r) ==
  IF CalledOk(r, "getUserWallets") THEN KeyOwner(BearerToken(req[r].hdr)) ELSE req[r].sess

\* C5: position reads are scoped to the authenticated user: findMany and
\* findByPositionHash are called with the id of the authenticated user only,
\* refresh is called only on a position of that user, a response carries only
\* positions of that user, and a lookup of a position of another user is
\* answered 404 POSITION_NOT_FOUND.
C5_PositionReadsScoped ==
  \A r \in Reqs :
    (InFlight(r) /\ req[r].route \in {"pos_list", "pos_get"})
      => /\ \A i \in DOMAIN trace[r] :
              /\ trace[r][i].op \in {"findMany", "findByPositionHash"}
                   => trace[r][i].arg = AuthenticatedUser(r)
              /\ trace[r][i].op = "refresh"
                   => /\ trace[r][i].arg \in Positions
                      /\ PositionOwner[trace[r][i].arg] = AuthenticatedUser(r)
         /\ (Responded(r) /\ resp[r].success /\ req[r].route = "pos_get")
              => /\ resp[r].data.id = req[r].target
                 /\ PositionOwner[resp[r].data.id] = AuthenticatedUser(r)
         /\ (Responded(r) /\ resp[r].success /\ req[r].route = "pos_list")
              => \A p \in resp[r].data.ids : PositionOwner[p] = AuthenticatedUser(r)
         /\ (/\ Responded(r) /\ req[r].route = "pos_get"
             /\ req[r].target \in Positions
             /\ Called(r, "findByPositionHash")
             /\ local[r].caught = NoThrow
             /\ PositionOwner[req[r].target] # AuthenticatedUser(r))
              => /\ resp[r].status = 404
                 /\ resp[r].code = "POSITION_NOT_FOUND"

\* user u1 has asked for the position of user u2 and has been answered 404, without a refresh
C5_Witness ==
  \E r \in Reqs :
    /\ req[r].route = "pos_get" /\ req[r].target = "p2"
    /\ Called(r, "handler") /\ AuthenticatedUser(r) = "u1"
    /\ Responded(r) /\ resp[r].code = "POSITION_NOT_FOUND"
    /\ Called(r, "findByPositionHash") /\ ~Called(r, "refresh")

\* C6: withAuth tries the API key first and the session second: when the
\* mc_ token of the Authorization header validates to an existing user, the
\* handler runs exactly once, with that user, and auth() is not consulted,
\* also when the request carries a session of another user.
C6_ApiKeyFirst ==
  \A r \in Reqs :
    (InFlight(r) /\ req[r].route \in WithAuthRoutes)
      => /\ (HasApiKey(req[r].hdr) /\ trace[r] # <<>>) => trace[r][1].op = "validateApiKey"
         /\ CalledOk(r, "getUserWallets")
              => /\ CountCalls(r, "handler") = 1
                 /\ \A i \in DOMAIN trace[r] :
                      trace[r][i].op = "handler"
                        => trace[r][i].arg = KeyOwner(BearerToken(req[r].hdr))
                 /\ ~Called(r, "auth")

\* a request with the key of u1 and a session of u2 has run its handler as u1
C6_Witness ==
  \E r \in Reqs :
    /\ req[r].route \in WithAuthRoutes
    /\ req[r].hdr = "Bearer mc_u1" /\ req[r].sess = "u2"
    /\ CalledOk(r, "getUserWallets")
    /\ local[r].user = "u1"
    /\ Responded(r) /\ resp[r].success

\* the schema of the route rejected the input
ValidationFailed(r) ==
  \E i \in DOMAIN trace[r] : trace[r][i].op = "safeParse" /\ trace[r][i].out = "fail"

ProtectedRoutes == WithAuthRoutes \cup SessionOnlyRoutes

\* the request carries no credential its route accepts
NoCredentials(r) ==
  /\ NoSession(r)
  /\ req[r].route \in WithAuthRoutes => ~CarriesValidKey(r)

\* C8 as stated: on every protected route validation comes before
\* authentication: authentication is attempted only for requests whose input
\* validated, and a request with invalid input and no credentials ends in
\* VALIDATION_ERROR.
C8_ValidatedBeforeAuthenticated ==
  \A r \in Reqs :
    (InFlight(r) /\ req[r].route \in ProtectedRoutes)
      => /\ (Called(r, "auth") \/ Called(r, "validateApiKey")) => CalledOk(r, "safeParse")
         /\ (Responded(r) /\ req[r].input = "invalid" /\ NoCredentials(r))
              => resp[r].code = "VALIDATION_ERROR"

\* the call at place j of the trace comes after a successful authentication
AuthenticatedBefore(r, j) ==
  \E i \in 1..(j - 1) :
    /\ trace[r][i].out = "ok"
    /\ trace[r][i].op \in {"auth", "getUserWallets"}

\* C8 (amended): on every protected route authentication comes before
\* validation: the input is parsed and validated only for requests that
\* authenticated, and a request with invalid input and no credentials ends in
\* UNAUTHORIZED.
C8_AuthenticatedBeforeValidated ==
  \A r \in Reqs :
    (InFlight(r) /\ req[r].route \in ProtectedRoutes)
      => /\ \A j \in DOMAIN trace[r] :
              trace[r][j].op = "safeParse" => AuthenticatedBefore(r, j)
         /\ (Responded(r) /\ req[r].input # "ok" /\ NoCredentials(r))
              => IsUnauthorized(resp[r])

\* a list request with an invalid query and no credentials has been answered 401
C8_Witness ==
  \E r \in Reqs :
    /\ req[r].route = "pos_list" /\ req[r].input = "invalid"
    /\ NoCredentials(r)
    /\ Responded(r) /\ IsUnauthorized(resp[r])
    /\ ~Called(r, "safeParse")

\* C9: whatever step of a request fails, the caller receives an error
\* envelope: no exception escapes withAuth or a route handler, and every
\* request ends in exactly one response.
C9_EveryFailureIsAnEnvelope ==
  \A r \in Reqs :
    /\ pc[r] # "escaped"
    /\ Responded(r) => /\ resp[r].sent
                       /\ ~resp[r].success => resp[r].code \in DOMAIN ErrorCodeToHttpStatus

\* the last call of the request is a call of the delegate step that threw
DelegateThrew(r) ==
  /\ trace[r] # <<>>
  /\ trace[r][Len(trace[r])].op \in DelegateOps
  /\ trace[r][Len(trace[r])].out = "throw"

\* C10: when a delegated service call of token discovery, position fetch or
\* position list throws an error that matches none of the substring rules
\* of the endpoint, the response is 500
\* INTERNAL_SERVER_ERROR with a fixed message only: the text of the thrown
\* error is neither in error.message nor in error.details.
C10_InternalErrorIsGeneric ==
  \A r \in Reqs :
    (/\ req[r].route \in {"erc20_post", "pos_get", "pos_list"}
     /\ Responded(r) /\ DelegateThrew(r) /\ resp[r].code = "INTERNAL_SERVER_ERROR")
      => /\ resp[r].status = 500
         /\ resp[r].message # ErrorText
         /\ resp[r].details # ErrorText

\* the calls of validateApiKey made so far all returned a value
KeyCallsReturned(r) ==
  \A i \in DOMAIN trace[r] :
    trace[r][i].op \in {"validateApiKey", "findUserById", "getUserWallets"}
      => trace[r][i].out = "ok"

\* the request authenticated by key stands as the key's calls left it,
\* whatever the state of the promise of updateLastUsed
LastUsedIsNotAwaited(r) ==
  /\ local[r].lastUsed \in {"pending", "resolved", "rejected"}
  /\ (pc[r] = "findUser" /\ local[r].lastUsed = "pending") => ENABLED WithAuthFindUser(r)
  /\ KeyCallsReturned(r)
       => /\ pc[r] # "session"
          /\ ~Called(r, "auth")
          /\ Responded(r) => ~IsUnauthorized(resp[r])
          /\ CalledOk(r, "getUserWallets") => Called(r, "handler")

\* the step in which the promise of updateLastUsed settles leaves the
\* response, the position and the calls of the request as they were
SettleChangesNothing(r) ==
  (local[r].lastUsed = "pending" /\ local'[r].lastUsed \in {"resolved", "rejected"})
    => /\ resp'[r] = resp[r]
       /\ pc'[r] = pc[r]
       /\ trace'[r] = trace[r]
       /\ local'[r].user = local[r].user

\* C11: the last-used update of API-key authentication is fire-and-forget:
\* the fetch of the user does not wait for updateLastUsed to settle; whether
\* updateLastUsed is pending, resolved or rejected, a key whose record, user
\* and wallets were found authenticates the request (the session is not
\* consulted, no 401) and the handler is invoked; and the settling of
\* updateLastUsed, before or after the response, changes nothing of the request.
C11_LastUsedIsFireAndForget ==
  /\ [](\A r \in Reqs : (InFlight(r) /\ Called(r, "updateLastUsed")) => LastUsedIsNotAwaited(r))
  /\ [][\A r \in Reqs : SettleChangesNothing(r)]_vars

\* updateLastUsed has rejected for a request that was served as the owner of the key
C11_Witness ==
  \E r \in Reqs :
    /\ req[r].route \in WithAuthRoutes
    /\ req[r].hdr = "Bearer mc_u1"
    /\ local[r].lastUsed = "rejected"
    /\ local[r].user = "u1"
    /\ Responded(r) /\ resp[r].success

\* the pool lookup passed both validations and poolService.discover returned
PoolDiscovered(r) ==
  /\ req[r].route = "pool_get"
  /\ Responded(r)
  /\ CalledOk(r, "poolDiscover")

\* C12: in the pool lookup, once poolService.discover has succeeded, a failure
\* of getPoolMetrics does not fail the request (200, metrics omitted,
\* hasMetrics false); getPoolMetrics is called at most once per request and
\* never when discover failed.
C12_MetricsAreBestEffort ==
  \A r \in Reqs :
    (InFlight(r) /\ req[r].route = "pool_get")
      => /\ CountCalls(r, "getPoolMetrics") <= 1
         /\ Called(r, "getPoolMetrics") => CalledOk(r, "poolDiscover")
         /\ (Responded(r) /\ CalledOk(r, "poolDiscover") /\ Called(r, "getPoolMetrics")
             /\ ~CalledOk(r, "getPoolMetrics"))
              => /\ resp[r].success /\ resp[r].status = 200
                 /\ resp[r].data.metrics = Undefined
                 /\ ~resp[r].data.hasMetrics

\* C13: a pool lookup with enrichMetrics=true whose validation and discovery
\* succeed makes exactly one getPoolMetrics call, and when that call succeeds
\* the response carries data.metrics and meta.hasMetrics = true; a lookup
\* without enrichMetrics=true makes no subgraph call and has no metrics.
C13_EnrichMetricsCallsSubgraphOnce ==
  \A r \in Reqs :
    PoolDiscovered(r)
      => IF "enrichMetrics" \in req[r].flags
         THEN /\ CountCalls(r, "getPoolMetrics") = 1
              /\ CalledOk(r, "getPoolMetrics")
                   => /\ resp[r].success
                      /\ resp[r].data.metrics = "metrics"
                      /\ resp[r].data.hasMetrics
         ELSE /\ ~Called(r, "getPoolMetrics")
              /\ resp[r].success
              /\ resp[r].data.metrics = Undefined
              /\ ~resp[r].data.hasMetrics

\* the list request was answered with a page
ListAnswered(r) ==
  /\ req[r].route = "pos_list"
  /\ Responded(r)
  /\ resp[r].success

\* the string is a decimal numeral: digits only, at least one
IsDecimal(cs) == cs # <<>> /\ \A j \in DOMAIN cs : cs[j] \in Digits

\* C14: in every paginated list response pagination.hasMore equals
\* (offset + limit < total), and total, limit and offset echo the total the
\* service reported and the validated limit and offset (20 and 0 when the
\* query omits them); an offset at or beyond total gives hasMore = false.
C14_HasMoreIsDerived ==
  \A r \in Reqs :
    ListAnswered(r)
      => LET pg == resp[r].pagination
             q == req[r].query
             found == FindMany(AuthenticatedUser(r), local[r].data) IN
           /\ pg.hasMore = (pg.offset + pg.limit < pg.total)
           /\ pg.total = found.total
           /\ resp[r].data.items = found.positions
           /\ pg.limit = IF q.limit.present THEN DecimalValue(q.limit.chars) ELSE 20
           /\ pg.offset = IF q.offset.present THEN DecimalValue(q.offset.chars) ELSE 0
           /\ pg.offset >= pg.total => ~pg.hasMore

\* a first page of one position out of two has been answered with hasMore
C14_Witness ==
  \E r \in Reqs :
    /\ ListAnswered(r)
    /\ resp[r].pagination = [total |-> 2, limit |-> 1, offset |-> 0, hasMore |-> TRUE]
    /\ Len(resp[r].data.items) = 1

LimitAcceptable(q) ==
  ~q.limit.present
    \/ (IsDecimal(q.limit.chars) /\ DecimalValue(q.limit.chars) \in 1..100)
OffsetAcceptable(q) ==
  ~q.offset.present \/ IsDecimal(q.offset.chars)

\* the list request was rejected by validation, before the position service
RejectedByValidation(r) ==
  /\ ValidationFailed(r)
  /\ ~Called(r, "findMany")
  /\ Responded(r) /\ ~resp[r].success
  /\ resp[r].status = 400 /\ resp[r].code = "VALIDATION_ERROR"

C17_ChainIdIsNumeric ==
  \A r \in Reqs :
    (/\ req[r].route = "pos_list" /\ Called(r, "safeParse")
     /\ req[r].query.chainId.present /\ req[r].query.chainId.chars # <<>>)
      => LET cs == req[r].query.chainId.chars IN
           IF IsDecimal(cs) /\ DecimalValue(cs) > 0
           THEN CalledOk(r, "safeParse") => local[r].data.chainId = Num(DecimalValue(cs))
           ELSE RejectedByValidation(r)

\* the event has the fields its type requires and none its type forbids
EventAllowed(e) ==
  /\ e.eventType \in {"INCREASE_LIQUIDITY", "DECREASE_LIQUIDITY"}
       => e.liquidity.present /\ ~e.recipient.present
  /\ e.eventType = "COLLECT" => e.recipient.present

\* C18: the PATCH ledger-event schema accepts a body only if it has 1 to 100
\* events and every event has liquidity and no recipient when it is an
\* INCREASE_LIQUIDITY or DECREASE_LIQUIDITY, and a recipient when it is a
\* COLLECT: one event that is not so rejects the whole request.
C18_EventFieldsByType ==
  \A r \in Reqs :
    (req[r].route = "pos_patch" /\ CalledOk(r, "safeParse"))
      => /\ Len(req[r].body.events) \in 1..100
         /\ \A i \in DOMAIN req[r].body.events : EventAllowed(req[r].body.events[i])

\* a body of two events has been rejected for its second event, an increase
\* that carries a recipient
C18_Witness ==
  \E r \in Reqs :
    /\ req[r].route = "pos_patch"
    /\ req[r].body.events =
         <<AnIncrease,
           [AnIncrease EXCEPT !.recipient = Str(<<"0x742d35Cc6634C0532925a3b844Bc9e7595f0bEb0">>)]>>
    /\ ValidationFailed(r)

\* the parameters of the search the client supplied are well formed: no
\* empty symbol or name, no malformed address
SearchWellFormed(q) ==
  /\ q.symbol.present => q.symbol.chars # <<>>
  /\ q.name.present => q.name.chars # <<>>
  /\ q.address.present => Erc20AddressRegex(q.address.chars)

\* C19: the token search passes validation and is delegated to the token
\* service exactly when chainId is a positive integer and at least one of
\* symbol, name or address is supplied (a valid address alone suffices);
\* otherwise, also when chainId is missing, it is answered 400
\* VALIDATION_ERROR without a call of the service.
C19_SearchNeedsOneCriterion ==
  \A r \in Reqs :
    (/\ req[r].route = "erc20_search" /\ Called(r, "safeParse")
     /\ SearchWellFormed(req[r].search))
      => LET q == req[r].search
             chainIdOk == /\ q.chainId.present /\ IsDecimal(q.chainId.chars)
                          /\ DecimalValue(q.chainId.chars) > 0 IN
           IF chainIdOk /\ (q.symbol.present \/ q.name.present \/ q.address.present)
           THEN /\ CalledOk(r, "safeParse")
                /\ Responded(r) => Called(r, "searchTokens")
           ELSE /\ ValidationFailed(r)
                /\ ~Called(r, "searchTokens")
                /\ Responded(r) /\ resp[r].status = 400 /\ resp[r].code = "VALIDATION_ERROR"

\* ten times a wide integer plus d, up to limb i: the limbs and the carry
RECURSIVE TimesTenPlus(_, _, _)
TimesTenPlus(limbs, d, i) ==
  IF i = 0 THEN [limbs |-> <<>>, carry |-> d]
  ELSE CHOOSE y \in {[limbs |-> Append(lo.limbs, (limbs[i] * 10 + lo.carry) % LimbBase),
                       carry |-> (limbs[i] * 10 + lo.carry) \div LimbBase] :
                        lo \in {TimesTenPlus(limbs, d, i - 1)}} : TRUE

\* the wide integer acc followed by the digits a..b of cs: the digits of
\* the first half are read, then those of the second
RECURSIVE ParseDigits(_, _, _, _)
ParseDigits(acc, cs, a, b) ==
  IF a > b THEN acc
  ELSE IF a = b THEN TimesTenPlus(acc, DigitValue(cs[a]), NumLimbs).limbs
  ELSE CHOOSE y \in {ParseDigits(hi, cs, (a + b) \div 2 + 1, b) :
                        hi \in {ParseDigits(acc, cs, a, (a + b) \div 2)}} : TRUE

\* BigInt(string): the wide integer a string of decimal digits denotes,
\* digit by digit: ten times the value so far, plus the digit
ParseBigInt(cs) == ParseDigits([i \in 1..NumLimbs |-> 0], cs, 1, Len(cs))

\* the value is a decimal numeral without a sign, an exponent, a point or a
\* leading zero, and reads back as the wide integer b
ExactDecimalOf(v, b) ==
  /\ v.type = "string"
  /\ IsDecimal(v.chars)
  /\ Len(v.chars) > 1 => v.chars[1] # "0"
  /\ ParseBigInt(v.chars) = b.limbs

\* the value holds a bigint or a Date, at some depth
RECURSIVE HoldsBigIntOrDate(_)
HoldsBigIntOrDate(v) ==
  \/ v.type \in {"bigint", "Date"}
  \/ /\ v.type = "object"
     /\ \E k \in DOMAIN v.fields : HoldsBigIntOrDate(v.fields[k])

WideFields == {"sqrtPriceX96", "liquidity", "feeGrowthGlobal0", "feeGrowthGlobal1"}

\* the pool state given to the serializer of the request, and the one it gave back
StateIn(r) ==
  IF req[r].route = "serialize_pool" THEN req[r].body.fields.state ELSE req[r].body
StateOut(r) ==
  IF req[r].route = "serialize_pool" THEN resp[r].data.fields.state ELSE resp[r].data

\* C21: serializeUniswapV3Pool and serializeUniswapV3PoolState turn
\* sqrtPriceX96, liquidity, feeGrowthGlobal0 and feeGrowthGlobal1 into their
\* exact decimal strings (parsing the string gives the integer back, for
\* values from 0 to 2^256 - 1), serializeUniswapV3Pool serializes token0 and
\* token1 and converts createdAt and updatedAt, and the output holds no
\* bigint and no Date at any depth.
C21_WideIntegersRoundTrip ==
  \A r \in Reqs :
    (req[r].route \in {"serialize_pool", "serialize_state"} /\ pc[r] = "serialized")
      => /\ \A f \in WideFields : ExactDecimalOf(StateOut(r).fields[f], StateIn(r).fields[f])
         /\ ~HoldsBigIntOrDate(resp[r].data)
         /\ req[r].route = "serialize_pool"
              => /\ resp[r].data.fields.token0 = serializeErc20Token(req[r].body.fields.token0)
                 /\ resp[r].data.fields.token1 = serializeErc20Token(req[r].body.fields.token1)
                 /\ resp[r].data.fields.createdAt.type = "string"
                 /\ resp[r].data.fields.updatedAt.type = "string"

\* a pool whose liquidity is 2^53 + 1 and whose sqrtPriceX96 is 2^256 - 1 has
\* been serialized, the liquidity as 9007199254740993
C21_Witness ==
  \E r \in Reqs :
    /\ req[r].route = "serialize_pool" /\ pc[r] = "serialized"
    /\ req[r].body.fields.state.fields.liquidity = WideOf(<<1, 0, 0, 32>>)
    /\ req[r].body.fields.state.fields.sqrtPriceX96 = BigInt([i \in 1..NumLimbs |-> LimbBase - 1])
    /\ resp[r].data.fields.state.fields.liquidity =
         JsString(<<"9", "0", "0", "7", "1", "9", "9", "2", "5", "4", "7", "4", "0", "9", "9", "3">>)
    /\ Len(resp[r].data.fields.state.fields.sqrtPriceX96.chars) = 78
    /\ resp[r].data.fields.createdAt = JsString(<<"1970-01-01T", "1", "2", ":", "0", "0", ":", "0", "0", ".", "1", "2", "3", "Z">>)

\* the operations of the services layer and of the session provider
ServiceOps ==
  DelegateOps \cup {"validateApiKey", "updateLastUsed", "findUserById", "getUserWallets", "auth"}

\* C22: within one request no operation of the services layer is invoked
\* more than once: whether a call returned or threw, the handler does not
\* invoke it again, in every handler and for every thrown value.
C22_NoRetries ==
  \A r \in Reqs : \A op \in ServiceOps : CountCalls(r, op) <= 1

\* a position fetch whose refresh threw has been answered, refresh and the
\* lookup before it having been called once each
C22_Witness ==
  \E r \in Reqs :
    /\ req[r].route = "pos_get"
    /\ Responded(r) /\ ~resp[r].success
    /\ DelegateThrew(r) /\ trace[r][Len(trace[r])].op = "refresh"
    /\ CountCalls(r, "refresh") = 1
    /\ CountCalls(r, "findByPositionHash") = 1
    /\ CountCalls(r, "validateApiKey") = 1

\* C23: the full API key is disclosed only in the 201 response of the POST
\* /api/v1/user/api-keys call that created it: after any sequence of create,
\* list and revoke calls no listing of GET /api/v1/user/api-keys holds a full
\* key, its entries being made of id, name, keyPrefix, lastUsed, createdAt and
\* updatedAt only, and no other response carries a key.
C23_FullKeyShownOnce ==
  \A r \in Reqs :
    (Responded(r) /\ resp[r].success)
      => /\ req[r].route = "apikeys_get"
              => \A it \in resp[r].data.items :
                   /\ DOMAIN it = {"id", "name", "keyPrefix", "lastUsed", "createdAt", "updatedAt"}
                   /\ \A f \in DOMAIN it : it[f] \notin KeyTokens
         /\ "key" \in DOMAIN resp[r].data
              => /\ req[r].route = "apikeys_post"
                 /\ resp[r].status = 201
                 /\ CalledOk(r, "createApiKey")
                 /\ resp[r].data.key \in KeyTokens
                 /\ keys[resp[r].data.key] = local[r].user

\* the key created by an earlier request is in the listing of its owner, by
\* its id and its prefix
C23_Witness ==
  \E r \in Reqs :
    /\ req[r].route = "apikeys_get"
    /\ Responded(r) /\ resp[r].success
    /\ keys["mc_new"] = local[r].user
    /\ \E it \in resp[r].data.items : it.id = "key_new" /\ it.keyPrefix = "mc_ne..."

\* the position fetch answered a value thrown by the position service
PosGetCaught(r) ==
  /\ req[r].route = "pos_get"
  /\ Responded(r)
  /\ DelegateThrew(r)

Answered(r, code, status) ==
  /\ ~resp[r].success
  /\ resp[r].code = code
  /\ resp[r].status = status

\* C24: in the position fetch the rules for a thrown service error apply in
\* a fixed order and the first match wins: 'not configured' or 'not
\* supported' gives CHAIN_NOT_SUPPORTED (400), also with 'not found' in the
\* text; otherwise 'not found' or 'does not exist' gives POSITION_NOT_FOUND
\* (404), also with 'contract' or 'RPC' in the text; otherwise 'Failed to
\* read', 'contract' or 'RPC' gives BAD_REQUEST (400); otherwise, and for a
\* thrown value that is not an Error, INTERNAL_SERVER_ERROR (500).
C24_FirstMatchWins ==
  \A r \in Reqs :
    PosGetCaught(r)
      => LET e == local[r].caught
             chain == Includes(e, "not configured") \/ Includes(e, "not supported")
             missing == Includes(e, "not found") \/ Includes(e, "does not exist")
             onChain == Includes(e, "Failed to read") \/ Includes(e, "contract")
                          \/ Includes(e, "RPC") IN
           /\ (e.isError /\ chain) => Answered(r, "CHAIN_NOT_SUPPORTED", 400)
           /\ (e.isError /\ ~chain /\ missing) => Answered(r, "POSITION_NOT_FOUND", 404)
           /\ (e.isError /\ ~chain /\ ~missing /\ onChain) => Answered(r, "BAD_REQUEST", 400)
           /\ (~e.isError \/ (~chain /\ ~missing /\ ~onChain))
                => Answered(r, "INTERNAL_SERVER_ERROR", 500)

\* an error that says both 'not supported' and 'not found' has been answered
\* CHAIN_NOT_SUPPORTED
C24_Witness ==
  \E r \in Reqs :
    /\ PosGetCaught(r)
    /\ local[r].caught = Thrown(TRUE, {"not supported", "not found"})
    /\ Answered(r, "CHAIN_NOT_SUPPORTED", 400)

\* a rule of the endpoint that comes before the rule of the chain matches e
EarlierRuleMatches(rt, e) ==
  CASE rt = "erc20_post" -> Includes(e, "Invalid Ethereum address")
    [] rt = "pool_get" -> Includes(e, "Invalid pool address") \/ Includes(e, "does not implement")
    [] OTHER -> FALSE

\* C25: in token discovery, position fetch and pool lookup a service error
\* whose message contains 'not configured' and matches no earlier rule of the
\* endpoint is reported with the error code CHAIN_NOT_SUPPORTED.
C25_NotConfiguredIsChainNotSupported ==
  \A r \in Reqs :
    (/\ req[r].route \in {"erc20_post", "pos_get", "pool_get"}
     /\ Responded(r) /\ DelegateThrew(r)
     /\ local[r].caught.isError
     /\ Includes(local[r].caught, "not configured")
     /\ ~EarlierRuleMatches(req[r].route, local[r].caught))
      => /\ ~resp[r].success
         /\ resp[r].code = "CHAIN_NOT_SUPPORTED"

\* the result the schema of a method gave for the pair of r
ParamsResult(r, method) ==
  trace[r][CHOOSE i \in DOMAIN trace[r] : trace[r][i].op = method].arg

\* C26: the path-parameter schemas of GET, PUT, PATCH and DELETE on
\* /api/v1/positions/uniswapv3/:chainId/:nftId apply the same validation:
\* each pair of strings is accepted by all of them or by none, and an
\* accepted pair gets the same chainId from all of them.
C26_SameParamsValidation ==
  \A r \in Reqs :
    (req[r].route = "pos_params" /\ \A m \in ParamsSchemas : Called(r, m))
      => \A m1, m2 \in ParamsSchemas :
           /\ ParamsResult(r, m1).success = ParamsResult(r, m2).success
           /\ ParamsResult(r, m1).success
                => ParamsResult(r, m1).data.chainId = ParamsResult(r, m2).data.chainId

\* the validation of the API key of the request came to nothing: no such
\* key, no such user, or a call of the key or user service threw
KeyFailed(r) ==
  \E i \in DOMAIN trace[r] :
    /\ trace[r][i].op \in {"validateApiKey", "findUserById", "getUserWallets"}
    /\ trace[r][i].out \in {"null", "throw"}

\* C27: when an mc_ API key fails validation (unknown key, owning user
\* missing, or the key or user service throws) withAuth does not reject the
\* request but goes on to the session: the request is answered 401 only if
\* there is no session either, and with a session the handler runs as the
\* user of the session; the key service is called only for tokens that start
\* with 'mc_'.
C27_FailedKeyFallsThrough ==
  \A r \in Reqs :
    (InFlight(r) /\ req[r].route \in WithAuthRoutes)
      => /\ Called(r, "validateApiKey") => HasApiKey(req[r].hdr)
         /\ KeyFailed(r)
              => /\ pc[r] = "session" \/ Called(r, "auth")
                 /\ (Responded(r) /\ IsUnauthorized(resp[r])) => NoSession(r)
                 /\ (Called(r, "auth") /\ NoSession(r))
                      => Responded(r) /\ IsUnauthorized(resp[r]) /\ ~Called(r, "handler")
                 /\ (Called(r, "auth") /\ req[r].sess \in Users)
                      => /\ local[r].user = req[r].sess
                         /\ \E i \in DOMAIN trace[r] :
                              trace[r][i].op = "handler" /\ trace[r][i].arg = req[r].sess

\* a request with the key of a user that no longer exists and a session of
\* u2 has been served as u2
C27_Witness ==
  \E r \in Reqs :
    /\ req[r].route \in WithAuthRoutes
    /\ req[r].hdr = "Bearer mc_ghost" /\ req[r].sess = "u2"
    /\ KeyFailed(r)
    /\ local[r].user = "u2"
    /\ Responded(r) /\ resp[r].success

\* the positions in the calls of request r at which operation op was called
CallsOf(r, op) == {i \in DOMAIN trace[r] : trace[r][i].op = op}

\* C28: updateLastUsed is invoked at most once per request, only after
\* validateApiKey returned a key record and before the owning user is looked
\* up; so it has been invoked too for a request that is rejected afterwards
\* because findUserById returned nothing or the user or wallet lookup threw.
C28_LastUsedOnceAfterRecord ==
  \A r \in Reqs :
    (InFlight(r) /\ req[r].route \in WithAuthRoutes)
      => /\ Cardinality(CallsOf(r, "updateLastUsed")) <= 1
         /\ \A i \in CallsOf(r, "updateLastUsed") :
              /\ i > 1
              /\ trace[r][i - 1].op = "validateApiKey"
              /\ trace[r][i - 1].out = "ok"
              /\ trace[r][i].arg = trace[r][i - 1].arg
              /\ \A j \in CallsOf(r, "findUserById") \cup CallsOf(r, "getUserWallets") : i < j
         /\ \A i \in CallsOf(r, "validateApiKey") :
              trace[r][i].out = "ok"
                => i + 1 \in CallsOf(r, "updateLastUsed")
         /\ \A j \in CallsOf(r, "findUserById") \cup CallsOf(r, "getUserWallets") :
              \E i \in CallsOf(r, "updateLastUsed") : i < j

\* a request with the key of a user that no longer exists, and no session,
\* was answered 401 after the timestamp of its key had been updated
C28_Witness ==
  \E r \in Reqs :
    /\ req[r].route \in WithAuthRoutes
    /\ req[r].hdr = "Bearer mc_ghost"
    /\ CallsOf(r, "updateLastUsed") # {}
    /\ \E j \in CallsOf(r, "findUserById") : trace[r][j].out = "null"
    /\ Responded(r) /\ IsUnauthorized(resp[r])

\* the steps of the link-wallet handler, in the order of the route
LinkWalletSteps ==
  <<"safeParse", "SiweMessage", "verify", "validateNonce", "consumeNonce", "linkWallet">>

\* the calls request r has made since withAuth handed it to the handler
HandlerCalls(r) ==
  LET h == CHOOSE i \in DOMAIN trace[r] : trace[r][i].op = "handler" IN
    SubSeq(trace[r], h + 1, Len(trace[r]))

\* the request was turned away by the schema, the SIWE parser, the signature
\* check or the nonce check
LinkWalletTurnedAway(r) ==
  /\ Responded(r)
  /\ resp[r].code \in {"VALIDATION_ERROR", "INVALID_SIWE_MESSAGE", "INVALID_SIGNATURE",
                       "NONCE_INVALID"}

LinkWalletInOrder(r) ==
  LET cs == HandlerCalls(r) IN
    \* the steps are taken in the order of the list, each at most once, and a
    \* step is taken only after the one before it came back
    /\ Len(cs) <= Len(LinkWalletSteps)
    /\ \A i \in DOMAIN cs : cs[i].op = LinkWalletSteps[i]
    /\ \A i \in DOMAIN cs : i < Len(cs) => cs[i].out = "ok"
    \* linkWallet only after a verified signature and a nonce validated and consumed
    /\ Called(r, "validateNonce") => req[r].signature = "good" /\ req[r].message # "malformed"
    /\ Called(r, "linkWallet")
         => CalledOk(r, "validateNonce") /\ CalledOk(r, "consumeNonce")
    \* no nonce is consumed for a request that was turned away
    /\ LinkWalletTurnedAway(r) => ~Called(r, "consumeNonce") /\ ~Called(r, "linkWallet")
    \* the nonce stays consumed, whatever linkWallet does afterwards
    /\ Called(r, "linkWallet") => req[r].nonce \notin nonces

\* C29: in POST /api/v1/auth/link-wallet the steps run in the order body
\* validation, SIWE parse, signature verification, validateNonce,
\* consumeNonce, linkWallet; linkWallet is called only after the signature
\* verified and the nonce was validated and consumed; a request that fails
\* validation, parsing, the signature check or the nonce check consumes no
\* nonce (a nonce leaves the cache only by a successful consumeNonce of a
\* request that carries it, or by expiry); and the nonce stays consumed when
\* linkWallet then fails.
C29_LinkWalletStepOrder ==
  [][ /\ \A r \in Reqs :
           (pc'[r] # "idle" /\ req'[r].route = "link_wallet" /\ Called(r, "handler")')
             => LinkWalletInOrder(r)'
      /\ \A n \in nonces \ nonces' :
           \/ UNCHANGED reqVars
           \/ \E r \in Reqs :
                /\ req[r].route = "link_wallet"
                /\ req[r].nonce = n
                /\ ~Called(r, "consumeNonce")
                /\ CalledOk(r, "consumeNonce")'
                /\ ~LinkWalletTurnedAway(r)' ]_vars

\* a request passed every check, its nonce was consumed, and linkWallet
\* failed because the wallet belongs to someone: 409, and the nonce is gone
C29_Witness ==
  \E r \in Reqs :
    /\ req[r].route = "link_wallet"
    /\ Responded(r)
    /\ resp[r].code = "WALLET_ALREADY_REGISTERED" /\ resp[r].status = 409
    /\ CalledOk(r, "consumeNonce")
    /\ \E i \in DOMAIN trace[r] : trace[r][i].op = "linkWallet" /\ trace[r][i].out = "throw"
    /\ req[r].nonce \notin nonces

\* C30: a POST /api/v1/tokens/erc20 or POST /api/v1/auth/link-wallet request
\* whose body is not parseable JSON reaches neither the validation by the
\* schema nor a service call, and is answered by the generic catch of the
\* handler with 500 INTERNAL_SERVER_ERROR.
C30_BadJsonIsInternalError ==
  \A r \in Reqs :
    (/\ req[r].route \in {"erc20_post", "link_wallet"}
     /\ req[r].input \in NotJson
     /\ Called(r, "handler"))
      => /\ HandlerCalls(r) = <<>>
         /\ pc[r] \in {"handler", "responded"}
         /\ Responded(r)
              => /\ resp[r].status = 500
                 /\ resp[r].code = "INTERNAL_SERVER_ERROR"
                 /\ ~resp[r].success

=============================================================================
